---- MODULE Spec2Model ----
(***************************************************************************)
(* zcast-player: the schedule evaluator (src/src/schedule.ts, the          *)
(* new-format pickActiveContent) and the per-canvas presentation           *)
(* coordinator (CanvasPlayer, src/unnamed/part_008).                       *)
(*                                                                         *)
(* Time is in milliseconds since an epoch that is a Monday 00:00:00.000    *)
(* UTC.  A Luxon DateTime is modelled by its epoch milliseconds; its zone  *)
(* is the zone of the evaluation it belongs to.  Zones have a fixed        *)
(* offset (no daylight-saving change inside the modelled days).            *)
(***************************************************************************)
EXTENDS Integers, Sequences, FiniteSets, TLC

(***************************************************************************)
(* Bounds of the model.                                                    *)
(***************************************************************************)
\* last calendar day (UTC) from which evaluation instants are drawn
MaxDay == 7
\* longest manifest of the multi-item manifests
MaxItems == 2
\* boundary-timer firings followed from one start
MaxWakes == 1

(***************************************************************************)
(* Calendar arithmetic (what Luxon does for the calls the source makes).   *)
(***************************************************************************)
MsPerSecond == 1000
MsPerMinute == 60 * MsPerSecond
MsPerHour == 60 * MsPerMinute
MsPerDay == 24 * MsPerHour

DEFAULT_TZ == "America/New_York"

\* offset of a zone from UTC; an item without timeZone gets DEFAULT_TZ
ZoneOffsetMs(tz) == IF tz = "UTC" THEN 0 ELSE 0 - 5 * MsPerHour

LocalMs(ms, tz) == ms + ZoneOffsetMs(tz)
LocalDay(ms, tz) == LocalMs(ms, tz) \div MsPerDay

\* DateTime.weekday: 1 = Monday .. 7 = Sunday
Weekday(ms, tz) == (LocalDay(ms, tz) % 7) + 1

\* now.set({hour, minute, second, millisecond}): same calendar day of the zone
SetTime(ms, tz, h, m, s, milli) ==
  LocalDay(ms, tz) * MsPerDay
    + h * MsPerHour + m * MsPerMinute + s * MsPerSecond + milli
    - ZoneOffsetMs(tz)

\* now.plus({days: 1})
PlusDays1(ms) == ms + MsPerDay

\* A date string of a manifest: absent, unparseable, or an ISO local date-time
\* (no offset in the string, so it is read in the zone given to fromISO).
AbsentDate == [k |-> "absent", local |-> 0]
BadDate == [k |-> "bad", local |-> 0]
IsoDate(localMs) == [k |-> "iso", local |-> localMs]

\* d.inceptAt ? DateTime.fromISO(d.inceptAt, { zone: tz }) : null
FromISOOrNull(s, tz) ==
  IF s.k = "absent" THEN [isNull |-> TRUE, isValid |-> FALSE, ms |-> 0]
  ELSE IF s.k = "bad" THEN [isNull |-> FALSE, isValid |-> FALSE, ms |-> 0]
  ELSE [isNull |-> FALSE, isValid |-> TRUE, ms |-> s.local - ZoneOffsetMs(tz)]

(***************************************************************************)
(* Day codes.                                                              *)
(***************************************************************************)
ALL_DAYS == <<"mo", "tu", "we", "th", "fr", "sa", "su">>

isByDayCode(x) == \E i \in 1..Len(ALL_DAYS) : ALL_DAYS[i] = x

\* String(x).toLowerCase() on the day strings of the model
LowerCase(x) ==
  CASE x = "MO" -> "mo"
    [] x = "SA" -> "sa"
    [] x = "Su" -> "su"
    [] OTHER -> x

\* null is modelled by the empty string
toByDayCode(x) == IF isByDayCode(LowerCase(x)) THEN LowerCase(x) ELSE ""

DOW == <<"mo", "tu", "we", "th", "fr", "sa", "su">>

dayCodeFromLuxon(weekday) == DOW[((((weekday - 1) % 7) + 7) % 7) + 1]

(***************************************************************************)
(* Helpers for today's window and the day filter.                          *)
(***************************************************************************)
\* one part of "HH:mm:ss.SSS".split(/[:.]/), with the destructuring default
TimePart(parts, i, dflt) == IF Len(parts) >= i THEN parts[i] ELSE dflt

\* fromTime / toTime are the number parts of the string; <<>> is an absent field
todaysWindow(now, tz, fromTime, toTime) ==
  [start |-> SetTime(now, tz, TimePart(fromTime, 1, 0), TimePart(fromTime, 2, 0),
                     TimePart(fromTime, 3, 0), TimePart(fromTime, 4, 0)),
   end |-> SetTime(now, tz, TimePart(toTime, 1, 23), TimePart(toTime, 2, 59),
                   TimePart(toTime, 3, 59), TimePart(toTime, 4, 999))]

\* variant: both flags set read as workingDays alone
allowedTodayWorkingFirst(today, itemDays, workingDays, weekend) ==
  IF Len(itemDays) > 0
  THEN \E i \in 1..Len(itemDays) :
         toByDayCode(itemDays[i]) # "" /\ toByDayCode(itemDays[i]) = today
  ELSE IF workingDays THEN today \in {"mo", "tu", "we", "th", "fr"}
  ELSE IF weekend THEN today \in {"sa", "su"}
  ELSE TRUE

\* variant: both flags set allow every day, whatever the days list says
allowedTodayFlagsFirst(today, itemDays, workingDays, weekend) ==
  IF workingDays /\ weekend THEN TRUE
  ELSE IF Len(itemDays) > 0
  THEN \E i \in 1..Len(itemDays) :
         toByDayCode(itemDays[i]) # "" /\ toByDayCode(itemDays[i]) = today
  ELSE IF workingDays THEN today \in {"mo", "tu", "we", "th", "fr"}
  ELSE IF weekend THEN today \in {"sa", "su"}
  ELSE TRUE

allowedToday(today, itemDays, workingDays, weekend) ==
  IF Len(itemDays) > 0
  THEN \E i \in 1..Len(itemDays) :
         toByDayCode(itemDays[i]) # "" /\ toByDayCode(itemDays[i]) = today
  ELSE IF workingDays /\ weekend THEN TRUE
  ELSE IF workingDays THEN today \in {"mo", "tu", "we", "th", "fr"}
  ELSE IF weekend THEN today \in {"sa", "su"}
  ELSE TRUE

(***************************************************************************)
(* Normalization: accept array/single, flat/nested.                        *)
(*                                                                         *)
(* A schedule item d is a record of the NewItem fields.  media is          *)
(* [k, type, id, name] with k = "absent" (no media key), "null" (key       *)
(* present, falsy value) or "obj" (an object); id and name are "" when the *)
(* document has none.  A raw element of a manifest is                      *)
(* [wrapped, d]: d itself, or {data: d} when wrapped.  A raw manifest is   *)
(* [wrap, elems]: wrap = "array" (a bare array), "results" / "data" /      *)
(* "items" (an object holding the array under that key) or "single" (one   *)
(* object, elems has length 1).                                            *)
(***************************************************************************)
looksFlat(x) == ~x.wrapped /\ x.d.media.k = "obj"

looksNested(x) == x.wrapped /\ x.d.media.k # "absent"

\* the value normalize works on: is it an array, and its elements
unwrapListWrappers(x) ==
  IF x.wrap \in {"results", "data", "items"}
  THEN [isArray |-> TRUE, elems |-> x.elems]
  ELSE [isArray |-> x.wrap = "array", elems |-> x.elems]

\* variant: the loop ends at the first element that matches no shape
RECURSIVE NormalizeElemsUntilUnmatched(_)
NormalizeElemsUntilUnmatched(elems) ==
  IF elems = <<>> THEN <<>>
  ELSE IF looksFlat(Head(elems))
  THEN <<Head(elems).d>> \o NormalizeElemsUntilUnmatched(Tail(elems))
  ELSE IF looksNested(Head(elems))
  THEN <<Head(elems).d>> \o NormalizeElemsUntilUnmatched(Tail(elems))
  ELSE <<>>

RECURSIVE NormalizeElems(_)
NormalizeElems(elems) ==
  IF elems = <<>> THEN <<>>
  ELSE IF looksFlat(Head(elems)) THEN <<Head(elems).d>> \o NormalizeElems(Tail(elems))
  ELSE IF looksNested(Head(elems)) THEN <<Head(elems).d>> \o NormalizeElems(Tail(elems))
  ELSE NormalizeElems(Tail(elems))

normalize(manifest) ==
  LET raw == unwrapListWrappers(manifest)
  IN IF raw.isArray THEN NormalizeElems(raw.elems)
     ELSE NormalizeElems(SubSeq(raw.elems, 1, 1))

(***************************************************************************)
(* Evaluator for new items (pickActiveContent, src/src/schedule.ts 371-453)*)
(***************************************************************************)
\* (!incept || (incept.isValid && now >= incept)) &&
\* (!expire || (expire.isValid && now <= expire))
WithinDates(incept, expire, now) ==
  /\ (incept.isNull \/ (incept.isValid /\ now >= incept.ms))
  /\ (expire.isNull \/ (expire.isValid /\ now <= expire.ms))

\* variant: the end of the window excluded
WithinDayWindowHalfOpen(now, dayStart, dayEnd) == now >= dayStart /\ now < dayEnd

\* now >= dayStart && now <= dayEnd
WithinDayWindow(now, dayStart, dayEnd) == now >= dayStart /\ now <= dayEnd

\* variant: an active item waits for tomorrow, not for the end of its window
NextCheckNoDayEnd(incept, now, dayStart, dayEnd, active, tomorrowStart) ==
  IF ~incept.isNull /\ incept.isValid /\ now < incept.ms THEN incept.ms
  ELSE IF now < dayStart THEN dayStart
  ELSE tomorrowStart

\* variant: the start of the window looked at before inceptAt
NextCheckWindowFirst(incept, now, dayStart, dayEnd, active, tomorrowStart) ==
  IF now < dayStart THEN dayStart
  ELSE IF ~incept.isNull /\ incept.isValid /\ now < incept.ms THEN incept.ms
  ELSE IF active THEN dayEnd + 1
  ELSE tomorrowStart

\* the next moment to re-evaluate, before the clamp by expire
NextCheckUnclamped(incept, now, dayStart, dayEnd, active, tomorrowStart) ==
  IF ~incept.isNull /\ incept.isValid /\ now < incept.ms THEN incept.ms
  ELSE IF now < dayStart THEN dayStart
  ELSE IF active THEN dayEnd + 1
  ELSE tomorrowStart

\* if (expire && expire.isValid && nextCheck > expire) nextCheck = expire + 1ms
ClampByExpire(expire, nextCheck) ==
  IF ~expire.isNull /\ expire.isValid /\ nextCheck > expire.ms
  THEN expire.ms + 1
  ELSE nextCheck

\* one element of candidates: the body of items.map((d, idx) => ...)
Candidate(d, idx, nowJS) ==
  LET tz == IF d.timeZone # "" THEN d.timeZone ELSE DEFAULT_TZ
      now == nowJS
      incept == FromISOOrNull(d.inceptAt, tz)
      expire == FromISOOrNull(d.expireAt, tz)
      win == todaysWindow(now, tz, d.fromTime, d.toTime)
      dayStart == win.start
      dayEnd == win.end
      withinDates == WithinDates(incept, expire, now)
      todayCode == dayCodeFromLuxon(Weekday(now, tz))
      allowedDay == allowedToday(todayCode, d.days, d.workingDays, d.weekend)
      withinDayWindow == WithinDayWindow(now, dayStart, dayEnd)
      active == withinDates /\ allowedDay /\ withinDayWindow
      tomorrowStart == todaysWindow(PlusDays1(now), tz, d.fromTime, d.toTime).start
      nextCheck ==
        ClampByExpire(expire,
          NextCheckUnclamped(incept, now, dayStart, dayEnd, active, tomorrowStart))
  IN [idx |-> idx, active |-> active, layout |-> d.media,
      priority |-> d.priority, nextCheckMs |-> nextCheck]

Candidates(items, nowJS) ==
  [i \in 1..Len(items) |-> Candidate(items[i], i - 1, nowJS)]

RECURSIVE MinOf(_)
MinOf(S) ==
  LET x == CHOOSE y \in S : TRUE
  IN IF S = {x} THEN x
     ELSE LET m == MinOf(S \ {x}) IN IF x < m THEN x ELSE m

\* variant: the minimum over the active candidates only
NextCheckOfActives(cands) ==
  IF \A i \in 1..Len(cands) : ~cands[i].active THEN cands[1].nextCheckMs
  ELSE MinOf({cands[i].nextCheckMs : i \in {j \in 1..Len(cands) : cands[j].active}})

\* Math.min(...candidates.map(c => c.nextCheckMs))
NextCheckOf(cands) == MinOf({cands[i].nextCheckMs : i \in 1..Len(cands)})

\* variant: every active candidate passes the filter, whatever its payload
IsActiveAnyPayload(c) == c.active

\* c.active && c.layout && c.layout.type === 'layout'
IsActiveLayout(c) == c.active /\ c.layout.k = "obj" /\ c.layout.type = "layout"

\* variant: a comparator that ignores priority
PickBeforeByIndexOnly(a, b) == a.idx > b.idx

\* the comparator of actives.sort: (b.priority - a.priority) || (b.idx - a.idx)
PickBefore(a, b) ==
  \/ a.priority > b.priority
  \/ (a.priority = b.priority /\ a.idx > b.idx)

RECURSIVE InsertSorted(_, _)
InsertSorted(c, sorted) ==
  IF sorted = <<>> THEN <<c>>
  ELSE IF PickBefore(c, Head(sorted)) THEN <<c>> \o sorted
  ELSE <<Head(sorted)>> \o InsertSorted(c, Tail(sorted))

RECURSIVE SortActives(_)
SortActives(cs) ==
  IF cs = <<>> THEN <<>> ELSE InsertSorted(Head(cs), SortActives(Tail(cs)))

NoLayout == [k |-> "absent", type |-> "", id |-> "", name |-> ""]
NoCandidate ==
  [idx |-> 0 - 1, active |-> FALSE, layout |-> NoLayout, priority |-> 0,
   nextCheckMs |-> 0]

\* the locals of one call: candidates, the chosen candidate and the ActivePick
PickRun(manifest, nowJS, wallNow) ==
  LET items == normalize(manifest)
      cands == Candidates(items, nowJS)
      actives == SelectSeq(cands, IsActiveLayout)
      sorted == SortActives(actives)
  IN IF Len(items) = 0
     THEN [candidates |-> <<>>, chosen |-> NoCandidate,
           pick |-> [kind |-> "none", layout |-> NoLayout,
                     nextCheck |-> wallNow + 60 * MsPerSecond]]
     ELSE LET nextCheck == NextCheckOf(cands)
          IN IF Len(actives) = 0
             THEN [candidates |-> cands, chosen |-> NoCandidate,
                   pick |-> [kind |-> "none", layout |-> NoLayout,
                             nextCheck |-> nextCheck]]
             ELSE [candidates |-> cands, chosen |-> sorted[1],
                   pick |-> [kind |-> "layout", layout |-> sorted[1].layout,
                             nextCheck |-> nextCheck]]

pickActiveContent(manifest, nowJS, wallNow) == PickRun(manifest, nowJS, wallNow).pick

(***************************************************************************)
(* State of the boundary loop that drives pickActiveContent                *)
(* (applySchedule, src/unnamed/part_012 43-69).                            *)
(***************************************************************************)
VARIABLES
  manifest,     \* scheduleCache: the raw manifest
  nowJS,        \* the clock (epoch ms)
  candidates,   \* the candidates of the last pickActiveContent call
  chosen,       \* the chosen candidate of that call (NoCandidate: none)
  pick,         \* the ActivePick it returned (kind "unset": not called yet)
  wakes         \* firings of the boundary timer so far

schedVars == <<manifest, nowJS, candidates, chosen, pick, wakes>>

VARIABLES
  cp,           \* the fields of one CanvasPlayer
  ticks,        \* the activations of CanvasPlayer.tick suspended at an await
  clock,        \* what new Date() returns to the canvas
  eng,          \* a ScheduleEngine driven on its own
  engNow,       \* the instant passed to its next()
  engLog,       \* its next() calls since the last updateManifest
  players       \* CanvasManager.players: per canvas id, its CanvasPlayer and
                \* the activation of its tick suspended at an await

canvasVars == <<cp, ticks, clock>>
engVars == <<eng, engNow, engLog>>
mgrVars == <<players>>

VARIABLES
  an,           \* the AnalyticsClient: its fields, the activations of flushOnce
                \* suspended at an await, and what was posted
  watch         \* the manifest watcher of the main process: the file, the
                \* cache, the reads in flight and what was sent to the renderer

hostVars == <<an, watch>>

\* rows the model enqueues, and the activations of flushOnce it follows
MaxRows == 3
FlushSlots == {1, 2}

\* no activation of flushOnce
NoFlush == [pc |-> "idle", batch |-> <<>>]

\* new AnalyticsClient() after init(): the loop runs, nothing is queued
NoAnalytics ==
  [queue |-> <<>>, inflight |-> FALSE,
   flushes |-> [s \in FlushSlots |-> NoFlush],
   enqueued |-> 0,
   attempts |-> [r \in 1..MaxRows |-> 0],
   acked |-> {}, beacon |-> {}, unloaded |-> FALSE]

\* file writes the model follows, and the reads of the manifest in flight
MaxWrites == 3
ReadSlots == {1, 2}

\* no read in flight
NoRead == [pc |-> "idle"]

\* the main process before startWatch: no file, lastManifestHash = '',
\* lastManifestObject = null
NoWatch ==
  [disk |-> "absent", lastManifestHash |-> "", lastManifestObject |-> "null",
   reads |-> [s \in ReadSlots |-> NoRead],
   unlinked |-> FALSE, cleared |-> FALSE, writes |-> 0, sent |-> <<>>,
   lastRead |-> [why |-> "none", json |-> "null"]]

NoPick == [kind |-> "unset", layout |-> NoLayout, nextCheck |-> 0]

\* no manifest read yet
NoManifest == [wrap |-> "array", elems |-> <<>>]

\* 08:59:59.999 of day 1 in the default zone
FirstInstant == MsPerDay + 9 * MsPerHour - 1 - ZoneOffsetMs(DEFAULT_TZ)

(***************************************************************************)
(* The manifests and instants the evaluator is run on.                     *)
(***************************************************************************)
LayoutDoc(id) == [k |-> "obj", type |-> "layout", id |-> id, name |-> ""]
PlaylistDoc(id) == [k |-> "obj", type |-> "playlist", id |-> id, name |-> ""]
OtherDoc(id) == [k |-> "obj", type |-> "other", id |-> id, name |-> ""]
NullMedia == [k |-> "null", type |-> "", id |-> "", name |-> ""]
\* a layout document without an id: with a name only, or with neither
NamedLayoutDoc(name) == [k |-> "obj", type |-> "layout", id |-> "", name |-> name]

T0900 == <<9, 0, 0, 0>>
T1700 == <<17, 0, 0, 0>>

\* local times of day at which the clock is sampled: the window bounds, one
\* millisecond before and after them, and both ends of the day
TodSamples ==
  {0, 9 * MsPerHour - 1, 9 * MsPerHour, 9 * MsPerHour + 1,
   17 * MsPerHour - 1, 17 * MsPerHour, 17 * MsPerHour + 1, MsPerDay - 1}

ZoneOf(d) == IF d.timeZone # "" THEN d.timeZone ELSE DEFAULT_TZ

\* the sampled instants of the days first..last, as local times of zone tz
InstantsOf(tz, first, last) ==
  {day * MsPerDay + tod - ZoneOffsetMs(tz) : day \in first..last, tod \in TodSamples}

InceptSample == IsoDate(2 * MsPerDay + 9 * MsPerHour)
ExpireLate == IsoDate(4 * MsPerDay + 17 * MsPerHour)
ExpireEarly == IsoDate(1 * MsPerDay + 17 * MsPerHour)

\* items of the one-item manifests: every combination of the constraints
WideItems ==
  [inceptAt : {AbsentDate, BadDate, InceptSample},
   expireAt : {AbsentDate, BadDate, ExpireLate, ExpireEarly},
   fromTime : {<<>>, T0900, T1700},
   toTime : {<<>>, T1700, T0900},
   days : {<<>>, <<"MO", "we">>, <<"sa", "Su", "xx">>},
   workingDays : BOOLEAN,
   weekend : BOOLEAN,
   priority : {0},
   media : {LayoutDoc("L0")},
   timeZone : {""},
   name : {"a"},
   canvasId : {""}]

\* items of the longer manifests: priorities, payload kinds and one window
NarrowItems ==
  [inceptAt : {AbsentDate},
   expireAt : {AbsentDate},
   fromTime : {<<>>},
   toTime : {<<>>},
   days : {<<>>},
   workingDays : {FALSE},
   weekend : {FALSE},
   priority : {1, 5},
   media : {LayoutDoc("L"), PlaylistDoc("P")},
   timeZone : {""},
   name : {"a"},
   canvasId : {""}]
  \cup
  [inceptAt : {AbsentDate},
   expireAt : {AbsentDate, ExpireEarly},
   fromTime : {T0900},
   toTime : {T1700},
   days : {<<>>},
   workingDays : {FALSE},
   weekend : {FALSE},
   priority : {1, 5},
   media : {LayoutDoc("W")},
   timeZone : {"", "UTC"},
   name : {"b"},
   canvasId : {""}]

Flat(d) == [wrapped |-> FALSE, d |-> d]
Nested(d) == [wrapped |-> TRUE, d |-> d]

SeqsUpTo(S, n) == UNION {[1..k -> S] : k \in 0..n}

OneItemManifests ==
  {[wrap |-> "array", elems |-> <<Flat(d)>>] : d \in WideItems}

MultiItemManifests ==
  {[wrap |-> "array", elems |-> [i \in 1..Len(ds) |-> Flat(ds[i])]] :
     ds \in SeqsUpTo(NarrowItems, MaxItems)}

\* the other accepted shapes, and elements that match no shape
ShapeItem(pr, m) ==
  [inceptAt |-> AbsentDate, expireAt |-> AbsentDate, fromTime |-> <<>>,
   toTime |-> <<>>, days |-> <<>>, workingDays |-> FALSE, weekend |-> FALSE,
   priority |-> pr, media |-> m, timeZone |-> "", name |-> "s",
   canvasId |-> ""]

ShapeElems ==
  {Flat(ShapeItem(1, LayoutDoc("L"))), Nested(ShapeItem(1, LayoutDoc("L"))),
   Nested(ShapeItem(5, NullMedia)), Flat(ShapeItem(5, NullMedia)),
   Flat(ShapeItem(5, OtherDoc("X"))), Nested(ShapeItem(3, NoLayout))}

ShapeManifests ==
  {[wrap |-> w, elems |-> <<e1, e2>>] :
     w \in {"array", "results", "data", "items"}, e1 \in ShapeElems, e2 \in ShapeElems}
  \cup {[wrap |-> "single", elems |-> <<e>>] : e \in ShapeElems}

\* the zones whose local sample times the clock starts at
ZonesOf(m) ==
  IF normalize(m) = <<>> THEN {DEFAULT_TZ}
  ELSE {ZoneOf(normalize(m)[i]) : i \in 1..Len(normalize(m))}

(***************************************************************************)
(* ScheduleEngine (imported by canvas.ts from "./schedule"; its source is  *)
(* not part of the tree).  Written from sections 4.3 and 4.4 of the        *)
(* specification: the snapshot builder and the rotation selector.  The     *)
(* per-item evaluation is the evaluator above.                             *)
(***************************************************************************)
\* the configured minimum floor of a display slot
EngineFloorMs == 250
\* the upper bound of a display slot
EngineMaxMs == 3600000
\* the intrinsic duration of a payload without a timeline
DefaultDurationMs == 10000

Max2(a, b) == IF a > b THEN a ELSE b
Min2(a, b) == IF a < b THEN a ELSE b

NoKey == [top |-> 0 - 1, ids |-> <<>>]
NoEngine == [present |-> FALSE, items |-> <<>>, cursor |-> 0, key |-> NoKey]

\* apply new manifest: resets cursor and signature
EngineUpdateManifest(items) ==
  [present |-> TRUE, items |-> items, cursor |-> 0, key |-> NoKey]

\* content-payload recognized: a layout or a playlist document
Recognized(media) == media.k = "obj" /\ media.type \in {"layout", "playlist"}

\* name.toLowerCase() on the names of the model
LowerName(n) ==
  CASE n = "A" -> "a"
    [] n = "B" -> "b"
    [] OTHER -> n

\* position of a lower-cased name in alphabetical order
NameRank(n) ==
  CASE LowerName(n) = "a" -> 1
    [] LowerName(n) = "b" -> 2
    [] OTHER -> 3

\* variant: the tied group kept in manifest order
TiedBeforeByIndex(items, i, j) == i < j

\* order of the tied group: case-insensitive display name, then original index
TiedBefore(items, i, j) ==
  \/ NameRank(items[i].name) < NameRank(items[j].name)
  \/ (NameRank(items[i].name) = NameRank(items[j].name) /\ i < j)

RECURSIVE OrderTied(_, _)
OrderTied(items, S) ==
  IF S = {} THEN <<>>
  ELSE LET first == CHOOSE i \in S : \A j \in S \ {i} : TiedBefore(items, i, j)
       IN <<first>> \o OrderTied(items, S \ {first})

\* the snapshot of a tied group already ordered, with the key derived from
\* (topPriority, ordered content-identity list); tiedGroup holds positions
SnapshotOfTied(items, nextBoundary, top, tied) ==
  [nextBoundary |-> nextBoundary, topPriority |-> top, tiedGroup |-> tied,
   key |-> [top |-> top, ids |-> [k \in 1..Len(tied) |-> items[tied[k]].media.id]]]

\* max priority among active items
TopPriority(items, actives) ==
  CHOOSE pr \in {items[i].priority : i \in actives} :
    \A i \in actives : items[i].priority <= pr

SnapshotOfActives(items, nextBoundary, actives) ==
  IF actives = {}
  THEN [nextBoundary |-> nextBoundary, topPriority |-> 0 - 1, tiedGroup |-> <<>>,
        key |-> NoKey]
  ELSE SnapshotOfTied(items, nextBoundary, TopPriority(items, actives),
         OrderTied(items,
           {i \in actives : items[i].priority = TopPriority(items, actives)}))

SnapshotOfCandidates(items, now, cands) ==
  SnapshotOfActives(items,
    IF Len(items) = 0 THEN now + 60 * MsPerSecond ELSE NextCheckOf(cands),
    {i \in 1..Len(items) : cands[i].active /\ Recognized(items[i].media)})

\* snapshot(items, nowInstant) -> { nextBoundary, topPriority, tiedGroup[] }
Snapshot(items, now) == SnapshotOfCandidates(items, now, Candidates(items, now))

\* variant: the cursor is not advanced by a call
CursorAfterStay(cursor, len) == cursor % len

\* cursor = (cursor + 1) mod length
CursorAfter(cursor, len) == (cursor + 1) % len

NoItem ==
  [inceptAt |-> AbsentDate, expireAt |-> AbsentDate, fromTime |-> <<>>,
   toTime |-> <<>>, days |-> <<>>, workingDays |-> FALSE, weekend |-> FALSE,
   priority |-> 0, media |-> NoLayout, timeZone |-> "", name |-> "",
   canvasId |-> ""]

\* the slot of the chosen item: clamp(intrinsic, floor, nextBoundary - now),
\* bounded above
SlotMs(nextBoundary, now) ==
  Min2(EngineMaxMs, Max2(EngineFloorMs, Min2(DefaultDurationMs, nextBoundary - now)))

\* the call that returns the item at position pos and leaves cursor advanced
Chosen(e, now, snap, cursor, pos) ==
  [found |-> TRUE, pos |-> pos, item |-> e.items[pos],
   tickMs |-> SlotMs(snap.nextBoundary, now),
   engine |-> [e EXCEPT !.key = snap.key,
                        !.cursor = CursorAfter(cursor, Len(snap.tiedGroup))]]

\* variant: the cursor is kept when the key of the snapshot has changed
RotateKeepCursor(e, now, snap) ==
  IF Len(snap.tiedGroup) = 0
  THEN [found |-> FALSE, pos |-> 0, item |-> NoItem,
        tickMs |-> Max2(EngineFloorMs, snap.nextBoundary - now),
        engine |-> e]
  ELSE Chosen(e, now, snap, e.cursor,
              snap.tiedGroup[(e.cursor % Len(snap.tiedGroup)) + 1])

\* the rotation selector on a snapshot
Rotate(e, now, snap) ==
  IF Len(snap.tiedGroup) = 0
  THEN [found |-> FALSE, pos |-> 0, item |-> NoItem,
        tickMs |-> Max2(EngineFloorMs, snap.nextBoundary - now),
        engine |-> e]
  ELSE IF snap.key # e.key
       THEN Chosen(e, now, snap, 0, snap.tiedGroup[1])
       ELSE Chosen(e, now, snap, e.cursor,
                   snap.tiedGroup[(e.cursor % Len(snap.tiedGroup)) + 1])

\* next(nowInstant) -> { item | none, tickMs }, and the engine it leaves;
\* pos is the position of the chosen item in items (0: none)
EngineNext(e, now) == Rotate(e, now, Snapshot(e.items, now))

(***************************************************************************)
(* CanvasPlayer (src/unnamed/part_008 71-634).                             *)
(*                                                                         *)
(* cp is the object: its fields, the renderer elements it created (els)    *)
(* and the pending loop timer.  An element is [kind, doc, docVer, mode,    *)
(* parent]: parent is the layer it is a child of, docVer the               *)
(* versionAtStart of the tick that assigned doc.  A member of ticks is an  *)
(* activation of tick() suspended at an await, with its locals.            *)
(***************************************************************************)
\* manifest pushes followed
MaxVersion == 2
\* activations of tick() that can be suspended at once
MaxTicks == 2

Stages == {"A", "B"}
ElIds == {1, 2}
NoEl == 0
Slots == 1..MaxTicks

NoElement ==
  [kind |-> "none", doc |-> NoLayout, docVer |-> 0, mode |-> "none", parent |-> "none"]
NoLastGood == [kind |-> "none", id |-> ""]
NoMeta == [kind |-> "none", id |-> ""]
NoTimer == [armed |-> FALSE, ms |-> 0]
NoFrame ==
  [pc |-> "idle", versionAtStart |-> 0, kind |-> "none", doc |-> NoLayout,
   id |-> "", tickMs |-> 0]

\* the id of the canvas this player was constructed for (cfg.id)
CanvasId == "c1"

\* parseResolution: { w, h } of "<digits>x<digits>", {} of anything else
parseResolution(res) ==
  IF res = "800x600" THEN [has |-> TRUE, w |-> 800, h |-> 600]
  ELSE [has |-> FALSE, w |-> 0, h |-> 0]

\* pickCanvasCfg returns null
NoCfg == [id |-> "", x |-> 0, width |-> 0, height |-> 0, resolution |-> ""]

\* the CanvasCfg of canvas id at left edge x with the resolution string res
\* (y is carried like x, frameRate like resolution)
CanvasCfg(id, x, res) ==
  [id |-> id, x |-> x,
   width |-> IF parseResolution(res).has THEN parseResolution(res).w ELSE 1920,
   height |-> IF parseResolution(res).has THEN parseResolution(res).h ELSE 1080,
   resolution |-> res]

\* the style rectangle of the container; NoBox: there is no container
NoBox == [left |-> 0, width |-> 0, height |-> 0]
BoxOf(cfg) == [left |-> cfg.x, width |-> cfg.width, height |-> cfg.height]

\* new CanvasPlayer(root, cfg) followed by mount(), as CanvasManager creates it;
\* managed: the player is in CanvasManager.players
NewCanvasPlayer ==
  [mounted |-> TRUE, activeStage |-> "A", backStage |-> "B",
   visible |-> [s \in Stages |-> s = "A"],
   els |-> [e \in ElIds |-> NoElement],
   activePlayer |-> NoEl, backPlayer |-> NoEl,
   activeKind |-> "none", backKind |-> "none",
   loopTimer |-> NoTimer, engine |-> NoEngine, manifestVersion |-> 0,
   lastGood |-> NoLastGood, lastStartAt |-> FALSE, lastEventId |-> "",
   nextMeta |-> NoMeta, isBlack |-> FALSE, managed |-> TRUE,
   cfg |-> CanvasCfg(CanvasId, 0, ""), box |-> BoxOf(CanvasCfg(CanvasId, 0, ""))]

\* mount(): creates the container and two empty layers unless it exists
Mount(p) ==
  IF p.mounted THEN p
  ELSE [p EXCEPT !.mounted = TRUE, !.activeStage = "A", !.backStage = "B",
                 !.box = BoxOf(p.cfg),
                 !.visible = [s \in Stages |-> s = "A"],
                 !.els = [e \in ElIds |->
                            IF p.els[e].parent = "none" THEN p.els[e] ELSE NoElement]]

\* clearTimeout of a pending timer; loopTimer.armed says the timeout is pending
stopLoop(p) == [p EXCEPT !.loopTimer = NoTimer]

scheduleNext(p, ms) == [stopLoop(p) EXCEPT !.loopTimer = [armed |-> TRUE, ms |-> ms]]

\* lastStartAt / lastEventId / lastMeta are reset; lastMeta follows lastEventId
finishLastEventIfAny(p) == [p EXCEPT !.lastStartAt = FALSE, !.lastEventId = ""]

\* an element nothing refers to any more
Dropped(p, e) == [p EXCEPT !.els[e] = NoElement]

\* blackout(reason)
blackout(p0) ==
  LET p == Mount(p0)
  IN IF p.isBlack THEN p
     ELSE LET q == finishLastEventIfAny([p EXCEPT !.isBlack = TRUE])
          IN [q EXCEPT
                \* kill(activePlayer), kill(backPlayer), innerHTML = "" on both
                \* layers: every element referred to or attached goes
                !.els = [e \in ElIds |->
                           IF e \in {q.activePlayer, q.backPlayer}
                              \/ q.els[e].parent \in {q.activeStage, q.backStage}
                           THEN NoElement ELSE q.els[e]],
                !.activePlayer = NoEl, !.backPlayer = NoEl,
                !.activeKind = "none", !.backKind = "none",
                !.lastGood = NoLastGood]

\* applyGeometry(cfg): the new cfg, and the container's rectangle if there is
\* a container
applyGeometry(p, cfg) ==
  [p EXCEPT !.cfg = cfg, !.box = IF p.mounted THEN BoxOf(cfg) ELSE @]

\* unmount(): the loop is stopped, the canvas blacked out, the container
\* removed and every reference to a layer or a renderer dropped
unmount(p) ==
  [blackout(stopLoop(p)) EXCEPT
     !.mounted = FALSE, !.box = NoBox, !.els = [e \in ElIds |-> NoElement],
     !.activePlayer = NoEl, !.backPlayer = NoEl,
     !.activeKind = "none", !.backKind = "none"]

\* createRendererEl gives an element no other reference points to
NewEl(p) == CHOOSE e \in ElIds : p.els[e] = NoElement /\ \A o \in ElIds : (p.els[o] = NoElement => e <= o)

\* ensureBackRenderer after its awaits (lines 396-436)
ensureBackRenderer(p, kind, doc, ver) ==
  IF p.backPlayer = NoEl \/ p.backKind # kind
  THEN LET q == IF p.backPlayer # NoEl /\ p.els[p.backPlayer].parent # "none"
                THEN Dropped(p, p.backPlayer) ELSE p
           el == NewEl(q)
       IN [q EXCEPT !.els[el] = [kind |-> kind, doc |-> doc, docVer |-> ver,
                                 mode |-> "created", parent |-> q.backStage],
                    !.backPlayer = el, !.backKind = kind]
  ELSE [p EXCEPT !.els[p.backPlayer].doc = doc, !.els[p.backPlayer].docVer = ver]

\* el?.stop?.(), el?.play?.(), el?.pause?.()
SetMode(p, e, mode) == IF e = NoEl THEN p ELSE [p EXCEPT !.els[e].mode = mode]

\* variant: the layer classes and stage references are exchanged, the player
\* and kind references are not
swapLayersStagesOnly(p) ==
  LET q == finishLastEventIfAny(p)
      r == [q EXCEPT !.visible[q.activeStage] = FALSE, !.visible[q.backStage] = TRUE,
                     !.activeStage = q.backStage, !.backStage = q.activeStage]
  IN SetMode(r, r.activePlayer, "playing")

\* swapLayers up to its await (lines 461-478)
swapLayersBegin(p) ==
  LET q == finishLastEventIfAny(p)
      r == [q EXCEPT !.visible[q.activeStage] = FALSE, !.visible[q.backStage] = TRUE,
                     !.activeStage = q.backStage, !.backStage = q.activeStage,
                     !.activePlayer = q.backPlayer, !.backPlayer = q.activePlayer,
                     !.activeKind = q.backKind, !.backKind = q.activeKind]
  IN SetMode(r, r.activePlayer, "playing")

\* swapLayers after its await (lines 480-528)
swapLayersEnd(p) ==
  LET q == SetMode(p, p.backPlayer, "paused")
  IN [q EXCEPT !.lastStartAt = TRUE,
               !.lastEventId = IF q.nextMeta.kind # "none" /\ q.nextMeta.id # ""
                               THEN q.nextMeta.id ELSE "",
               !.nextMeta = NoMeta]

\* resolveNextFromEngineItem: raw = item.media; id = doc?.id ?? doc?.name
resolveNextFromEngineItem(item) ==
  [kind |-> IF item.media.k = "obj" /\ item.media.type = "playlist"
            THEN "playlist" ELSE "layout",
   doc |-> item.media,
   id |-> IF item.media.id # "" THEN item.media.id ELSE item.media.name]

\* getTopLevelIdentity(item, next).media_id
getTopLevelIdentity(item, next) == IF item.media.id # "" THEN item.media.id ELSE next.id

\* tick from line 589 on, for the item the engine returned, up to the await
TickItem(p, versionAtStart, tickMs, next, id) ==
  IF /\ p.lastGood # NoLastGood
     /\ p.lastGood.kind = next.kind
     /\ p.lastGood.id # ""
     /\ id # ""
     /\ p.lastGood.id = id
  THEN [cp |-> scheduleNext(p, Max2(500, tickMs)), frame |-> NoFrame]
  ELSE [cp |-> Mount([p EXCEPT !.nextMeta = [kind |-> next.kind, id |-> id]]),
        frame |-> [pc |-> "load", versionAtStart |-> versionAtStart,
                   kind |-> next.kind, doc |-> next.doc, id |-> id,
                   tickMs |-> tickMs]]

\* tick after engine.next returned r (lines 575-587)
TickAfterNext(p, versionAtStart, r) ==
  IF versionAtStart # p.manifestVersion
  THEN [cp |-> [p EXCEPT !.engine = r.engine], frame |-> NoFrame]
  ELSE IF ~r.found
  THEN [cp |-> scheduleNext(blackout([p EXCEPT !.engine = r.engine]),
                            Min2(1000, Max2(250, r.tickMs))),
        frame |-> NoFrame]
  ELSE TickItem([p EXCEPT !.engine = r.engine, !.isBlack = FALSE],
                versionAtStart, r.tickMs, resolveNextFromEngineItem(r.item),
                getTopLevelIdentity(r.item, resolveNextFromEngineItem(r.item)))

\* tick(versionAtStart) up to its first await or its return.  threw: the call
\* engine.next throws.  frame is the activation left suspended, if any
TickBegin(p, versionAtStart, now, threw) ==
  IF ~p.engine.present
  THEN [cp |-> scheduleNext(p, 500), frame |-> NoFrame]
  ELSE IF threw THEN [cp |-> p, frame |-> NoFrame]
  ELSE TickAfterNext(p, versionAtStart, EngineNext(p.engine, now))

NoTicks == [s \in Slots |-> NoFrame]

\* the canvas ids of the manifests given to the manager
MgrCanvasIds == {"c1", "c2"}

\* no CanvasPlayer has been created for a canvas id
NoPlayer ==
  [p |-> [NewCanvasPlayer EXCEPT !.mounted = FALSE, !.managed = FALSE, !.box = NoBox],
   f |-> NoFrame, lastCfg |-> NoCfg]

NoPlayers == [c \in MgrCanvasIds |-> NoPlayer]

FreeSlots == {s \in Slots : ticks[s].pc = "idle"}

\* the suspended activations, with fr (if one is left) in the first free slot
Suspend(fr) ==
  IF fr = NoFrame THEN ticks
  ELSE LET s == CHOOSE f \in FreeSlots : \A g \in FreeSlots : f <= g
       IN [ticks EXCEPT ![s] = fr]

\* list.filter(it => String(cid ?? "") === this.cfg.id)
RECURSIVE FilterForCanvas(_)
FilterForCanvas(list) ==
  IF list = <<>> THEN <<>>
  ELSE IF Head(list).canvasId = CanvasId
       THEN <<Head(list)>> \o FilterForCanvas(Tail(list))
       ELSE FilterForCanvas(Tail(list))

\* the manifests pushed to the canvas and the instants of its clock
CanvasItem(name, pr, media, from, to, cid) ==
  [inceptAt |-> AbsentDate, expireAt |-> AbsentDate, fromTime |-> from,
   toTime |-> to, days |-> <<>>, workingDays |-> FALSE, weekend |-> FALSE,
   priority |-> pr, media |-> media, timeZone |-> "", name |-> name,
   canvasId |-> cid, canvasX |-> 0, canvasRes |-> ""]

\* the item with its canvas at left edge x and resolution string res
At(item, x, res) == [item EXCEPT !.canvasX = x, !.canvasRes = res]

ItemA == CanvasItem("a", 1, LayoutDoc("A"), <<>>, <<>>, CanvasId)
ItemB == CanvasItem("b", 1, LayoutDoc("B"), <<>>, <<>>, CanvasId)
ItemP == CanvasItem("p", 1, PlaylistDoc("P"), <<>>, <<>>, CanvasId)
ItemW == CanvasItem("w", 5, LayoutDoc("W"), T0900, T1700, CanvasId)
ItemElsewhere == CanvasItem("a", 1, LayoutDoc("A"), <<>>, <<>>, "c2")
\* an item of priority 2
ItemH == CanvasItem("h", 2, LayoutDoc("H"), <<>>, <<>>, CanvasId)
\* items whose document has a name but no id, and neither
ItemM == CanvasItem("m", 1, NamedLayoutDoc("M"), <<>>, <<>>, CanvasId)
ItemN == CanvasItem("n", 1, NamedLayoutDoc(""), <<>>, <<>>, CanvasId)

ArrayOf(ds) == [wrap |-> "array", elems |-> [i \in 1..Len(ds) |-> Flat(ds[i])]]

CanvasManifests ==
  {ArrayOf(<<ItemElsewhere>>), ArrayOf(<<ItemA>>), ArrayOf(<<ItemB>>),
   ArrayOf(<<ItemA, ItemB>>), ArrayOf(<<ItemP>>), ArrayOf(<<ItemW>>),
   ArrayOf(<<ItemA, ItemW>>), ArrayOf(<<ItemM>>), ArrayOf(<<ItemN>>),
   ArrayOf(<<ItemA, ItemH>>)}

\* 08:59:59.999 and 09:00:00.000 of day 1 in the default zone
CanvasInstants ==
  {MsPerDay + 9 * MsPerHour - 1 - ZoneOffsetMs(DEFAULT_TZ),
   MsPerDay + 9 * MsPerHour - ZoneOffsetMs(DEFAULT_TZ)}

CanvasInit ==
  /\ cp = NewCanvasPlayer
  /\ ticks = NoTicks
  /\ clock = FirstInstant
  /\ manifest = NoManifest
  /\ nowJS = 0
  /\ candidates = <<>>
  /\ chosen = NoCandidate
  /\ pick = NoPick
  /\ wakes = 0
  /\ eng = NoEngine
  /\ engNow = FirstInstant
  /\ engLog = <<>>
  /\ players = NoPlayers
  /\ an = NoAnalytics
  /\ watch = NoWatch

\* what a call of tick leaves: the object and the suspended activations
AfterTick(r) ==
  /\ cp' = r.cp
  /\ ticks' = Suspend(r.frame)

\* updateManifest from line 218 on, for the filtered list
UpdateFiltered(filtered, p, threw) ==
  IF Len(filtered) = 0
  THEN /\ ~threw
       /\ cp' = scheduleNext(blackout(p), 1000)
       /\ ticks' = ticks
  ELSE AfterTick(TickBegin(p, p.manifestVersion, clock, threw))

\* updateManifest(fullManifest), with the synchronous part of the tick it calls
UpdateManifest ==
  /\ cp.managed
  /\ cp.manifestVersion < MaxVersion
  /\ FreeSlots # {}
  /\ \E filtered \in {FilterForCanvas(normalize(m)) : m \in CanvasManifests},
        threw \in BOOLEAN :
       UpdateFiltered(filtered,
         stopLoop([cp EXCEPT !.engine = EngineUpdateManifest(filtered),
                             !.manifestVersion = @ + 1]),
         threw)
  /\ UNCHANGED <<clock, schedVars, engVars, mgrVars, hostVars>>

\* CanvasManager.applyManifest finds no item for this canvas: the player is
\* unmounted and deleted from the manager, which never calls it again
Unmount ==
  /\ cp.managed
  /\ cp.manifestVersion > 0
  /\ cp' = [unmount(cp) EXCEPT !.managed = FALSE]
  /\ UNCHANGED <<ticks, clock, schedVars, engVars, mgrVars, hostVars>>

\* the loop timer fires: () => this.tick(this.manifestVersion)
TimerFires ==
  /\ cp.loopTimer.armed
  /\ FreeSlots # {}
  /\ \E threw \in BOOLEAN :
       AfterTick(TickBegin([cp EXCEPT !.loopTimer = NoTimer], cp.manifestVersion,
                           clock, threw))
  /\ UNCHANGED <<clock, schedVars, engVars, mgrVars, hostVars>>

\* the awaits of ensureBackRenderer settle (loadRenderer, whenDefined); the
\* element is ensured and prepareOffscreen awaits backPlayer.stop().  After
\* unmount() backStage is undefined and appendChild throws: RendererLoadFails
RendererLoaded(s) ==
  /\ ticks[s].pc = "load"
  /\ cp.mounted
  /\ LET f == ticks[s]
         p1 == ensureBackRenderer(cp, f.kind, f.doc, f.versionAtStart)
     IN cp' = SetMode(p1, p1.backPlayer, "stopped")
  /\ ticks' = [ticks EXCEPT ![s].pc = "stop"]
  /\ UNCHANGED <<clock, schedVars, engVars, mgrVars, hostVars>>

\* variant: the exception leaves tick without the catch and the scheduleNext
RendererLoadFailsUncaught(s) ==
  /\ ticks[s].pc = "load"
  /\ cp' = cp
  /\ ticks' = [ticks EXCEPT ![s] = NoFrame]
  /\ UNCHANGED <<clock, schedVars, engVars, mgrVars, hostVars>>

\* ensureBackRenderer throws (loadRenderer rejects because the fetch of the
\* renderer bundle fails, or the layers are gone): caught by tick, which
\* schedules the next tick
RendererLoadFails(s) ==
  /\ ticks[s].pc = "load"
  /\ cp' = scheduleNext(cp, Max2(500, ticks[s].tickMs))
  /\ ticks' = [ticks EXCEPT ![s] = NoFrame]
  /\ UNCHANGED <<clock, schedVars, engVars, mgrVars, hostVars>>

\* stop() and waitLoaded settle; prepareOffscreen awaits backPlayer.play()
BackStopped(s) ==
  /\ ticks[s].pc = "stop"
  /\ cp' = SetMode(cp, cp.backPlayer, "playing")
  /\ ticks' = [ticks EXCEPT ![s].pc = "play"]
  /\ UNCHANGED <<clock, schedVars, engVars, mgrVars, hostVars>>

\* play() settles; waitReady plays backPlayer and awaits three frames
BackPlaying(s) ==
  /\ ticks[s].pc = "play"
  /\ cp' = SetMode(cp, cp.backPlayer, "playing")
  /\ ticks' = [ticks EXCEPT ![s].pc = "ready"]
  /\ UNCHANGED <<clock, schedVars, engVars, mgrVars, hostVars>>

\* waitReady settles: the version check, then swapLayers up to its await.
\* After unmount() activeStage is undefined: swapLayers throws once it has
\* finished the analytics span, tick catches and schedules the next tick
BackReady(s) ==
  /\ ticks[s].pc = "ready"
  /\ IF ticks[s].versionAtStart # cp.manifestVersion
     THEN /\ cp' = cp
          /\ ticks' = [ticks EXCEPT ![s] = NoFrame]
     ELSE IF ~cp.mounted
     THEN /\ cp' = scheduleNext(finishLastEventIfAny(cp), Max2(500, ticks[s].tickMs))
          /\ ticks' = [ticks EXCEPT ![s] = NoFrame]
     ELSE /\ cp' = swapLayersBegin(cp)
          /\ ticks' = [ticks EXCEPT ![s].pc = "swap"]
  /\ UNCHANGED <<clock, schedVars, engVars, mgrVars, hostVars>>

\* activePlayer.play() settles: the rest of swapLayers, lastGood, scheduleNext
SwapSettled(s) ==
  /\ ticks[s].pc = "swap"
  /\ LET f == ticks[s]
         p1 == swapLayersEnd(cp)
     IN cp' = scheduleNext([p1 EXCEPT !.lastGood = [kind |-> f.kind, id |-> f.id]],
                           Max2(500, f.tickMs))
  /\ ticks' = [ticks EXCEPT ![s] = NoFrame]
  /\ UNCHANGED <<clock, schedVars, engVars, mgrVars, hostVars>>

\* time passes
ClockAdvances ==
  /\ \E t \in CanvasInstants : t > clock /\ clock' = t
  /\ UNCHANGED <<cp, ticks, schedVars, engVars, mgrVars, hostVars>>

\* CanvasManager.applyManifest for this existing player, with a manifest whose
\* items for the canvas are those of the last one and whose canvas rectangle
\* differs: applyGeometry(cfg), then updateManifest(manifest)
ApplyGeometryManifest ==
  /\ cp.managed
  /\ cp.engine.present
  /\ Len(cp.engine.items) > 0
  /\ cp.manifestVersion < MaxVersion
  /\ FreeSlots # {}
  /\ \E x \in {0, 100} \ {cp.cfg.x}, threw \in BOOLEAN :
       UpdateFiltered(cp.engine.items,
         stopLoop([applyGeometry(cp, CanvasCfg(CanvasId, x, "")) EXCEPT
                     !.engine = EngineUpdateManifest(cp.engine.items),
                     !.manifestVersion = @ + 1]),
         threw)
  /\ UNCHANGED <<clock, schedVars, engVars, mgrVars, hostVars>>

\* one canvas whose rectangle the manifests may change
GeometryNext ==
  \/ UpdateManifest
  \/ ApplyGeometryManifest
  \/ Unmount
  \/ TimerFires
  \/ \E s \in Slots :
       \/ RendererLoaded(s)
       \/ RendererLoadFails(s)
       \/ BackStopped(s)
       \/ BackPlaying(s)
       \/ BackReady(s)
       \/ SwapSettled(s)
  \/ ClockAdvances

CanvasNext ==
  \/ UpdateManifest
  \/ Unmount
  \/ TimerFires
  \/ \E s \in Slots :
       \/ RendererLoaded(s)
       \/ RendererLoadFails(s)
       \/ BackStopped(s)
       \/ BackPlaying(s)
       \/ BackReady(s)
       \/ SwapSettled(s)
  \/ ClockAdvances

(***************************************************************************)
(* CanvasManager: one CanvasPlayer per canvas id found in the manifest.    *)
(***************************************************************************)
\* pickCanvasCfg(item): null for an item without canvas or canvas id
pickCanvasCfg(item) ==
  IF item.canvasId = "" THEN NoCfg
  ELSE CanvasCfg(item.canvasId, item.canvasX, item.canvasRes)

\* wanted: the canvas ids of the manifest
Wanted(list) == {pickCanvasCfg(list[i]).id : i \in 1..Len(list)} \ {""}

\* variant: wanted.set only for an id that has no entry yet
WantedCfgsFirstWins(list, acc) ==
  IF list = <<>> THEN acc
  ELSE LET c == pickCanvasCfg(Head(list))
           rest == [i \in 1..(Len(list) - 1) |-> list[i + 1]]
           step[k \in 0..Len(rest)] ==
             IF k = 0
             THEN IF c = NoCfg \/ acc[c.id] # NoCfg THEN acc ELSE [acc EXCEPT ![c.id] = c]
             ELSE LET d == pickCanvasCfg(rest[k])
                  IN IF d = NoCfg \/ step[k - 1][d.id] # NoCfg THEN step[k - 1]
                     ELSE [step[k - 1] EXCEPT ![d.id] = d]
       IN step[Len(rest)]

\* the wanted map after the loop over the items: wanted.set(cfg.id, cfg) for
\* every item with a cfg, in order
RECURSIVE WantedCfgs(_, _)
WantedCfgs(list, acc) ==
  IF list = <<>> THEN acc
  ELSE LET c == pickCanvasCfg(Head(list))
       IN WantedCfgs(Tail(list), IF c = NoCfg THEN acc ELSE [acc EXCEPT ![c.id] = c])

\* cfgEquals
cfgEquals(a, b) ==
  /\ a.id = b.id /\ a.x = b.x /\ a.width = b.width /\ a.height = b.height
  /\ a.resolution = b.resolution

\* list.filter(it => String(cid ?? "") === this.cfg.id) of the player of id
RECURSIVE FilterForId(_, _)
FilterForId(list, id) ==
  IF list = <<>> THEN <<>>
  ELSE IF Head(list).canvasId = id
       THEN <<Head(list)>> \o FilterForId(Tail(list), id)
       ELSE FilterForId(Tail(list), id)

\* new CanvasPlayer(root, cfg); mount(); players.set; lastCfg.set
CreatedPlayer(cfg) ==
  [p |-> [NewCanvasPlayer EXCEPT !.cfg = cfg, !.box = BoxOf(cfg)],
   f |-> NoFrame, lastCfg |-> cfg]

\* an existing player: applyGeometry and lastCfg.set if the cfg differs from
\* the last one
Regeometried(pl, cfg) ==
  IF pl.lastCfg = NoCfg \/ ~cfgEquals(pl.lastCfg, cfg)
  THEN [pl EXCEPT !.p = applyGeometry(@, cfg), !.lastCfg = cfg]
  ELSE pl

\* updateManifest(fullManifest) of the player pl of canvas id, with the
\* synchronous part of the tick it calls
PlayerUpdate(pl, id, list, now, threw) ==
  LET filtered == FilterForId(list, id)
      p1 == stopLoop([pl.p EXCEPT !.engine = EngineUpdateManifest(filtered),
                                  !.manifestVersion = @ + 1])
  IN IF Len(filtered) = 0
     THEN [pl EXCEPT !.p = scheduleNext(blackout(p1), 1000)]
     ELSE LET r == TickBegin(p1, p1.manifestVersion, now, threw)
          IN [pl EXCEPT !.p = r.cp, !.f = IF r.frame = NoFrame THEN @ ELSE r.frame]

\* what applyManifest does to the entry of canvas id c: a player that is not
\* wanted is unmounted and deleted, a wanted one is created if the manager
\* has none, and updated.  A player the manager deleted earlier is not
\* followed any further once a new one is created for its id
ApplyOne(pl, c, list, wanted, now, threw) ==
  IF c \in wanted
  THEN PlayerUpdate(IF pl.p.managed
                    THEN Regeometried(pl, WantedCfgs(list, [d \in MgrCanvasIds |-> NoCfg])[c])
                    ELSE CreatedPlayer(WantedCfgs(list, [d \in MgrCanvasIds |-> NoCfg])[c]),
                    c, list, now, threw)
  ELSE IF pl.p.managed
       THEN [pl EXCEPT !.p = [unmount(@) EXCEPT !.managed = FALSE], !.lastCfg = NoCfg]
       ELSE pl

\* the ways the tick suspended as f on player p resumes: the outcomes of
\* RendererLoaded, RendererLoadFails, BackStopped, BackPlaying, BackReady and
\* SwapSettled
Resumed(p, f) ==
  CASE f.pc = "load" ->
         {[p |-> scheduleNext(p, Max2(500, f.tickMs)), f |-> NoFrame]}
         \cup (IF p.mounted
               THEN {[p |-> SetMode(ensureBackRenderer(p, f.kind, f.doc, f.versionAtStart),
                                    ensureBackRenderer(p, f.kind, f.doc, f.versionAtStart).backPlayer,
                                    "stopped"),
                      f |-> [f EXCEPT !.pc = "stop"]]}
               ELSE {})
    [] f.pc = "stop" ->
         {[p |-> SetMode(p, p.backPlayer, "playing"), f |-> [f EXCEPT !.pc = "play"]]}
    [] f.pc = "play" ->
         {[p |-> SetMode(p, p.backPlayer, "playing"), f |-> [f EXCEPT !.pc = "ready"]]}
    [] f.pc = "ready" ->
         {IF f.versionAtStart # p.manifestVersion
          THEN [p |-> p, f |-> NoFrame]
          ELSE IF ~p.mounted
          THEN [p |-> scheduleNext(finishLastEventIfAny(p), Max2(500, f.tickMs)),
                f |-> NoFrame]
          ELSE [p |-> swapLayersBegin(p), f |-> [f EXCEPT !.pc = "swap"]]}
    [] f.pc = "swap" ->
         {[p |-> scheduleNext([swapLayersEnd(p) EXCEPT
                                 !.lastGood = [kind |-> f.kind, id |-> f.id]],
                              Max2(500, f.tickMs)),
           f |-> NoFrame]}
    [] OTHER -> {}

\* an item that names no canvas
ItemX == CanvasItem("x", 5, LayoutDoc("X"), <<>>, <<>>, "")

\* the manifests given to the manager
ManagerManifests ==
  {ArrayOf(<<>>), ArrayOf(<<ItemA>>), ArrayOf(<<ItemElsewhere>>),
   ArrayOf(<<ItemA, ItemElsewhere>>), ArrayOf(<<ItemA, ItemB>>),
   ArrayOf(<<ItemX>>), ArrayOf(<<ItemX, ItemA>>),
   ArrayOf(<<At(ItemA, 100, "")>>),
   ArrayOf(<<ItemA, At(ItemB, 100, "800x600")>>)}

ManagerInit ==
  /\ players = NoPlayers
  /\ an = NoAnalytics
  /\ watch = NoWatch
  /\ manifest = NoManifest
  /\ cp = NewCanvasPlayer
  /\ ticks = NoTicks
  /\ clock = FirstInstant
  /\ nowJS = 0
  /\ candidates = <<>>
  /\ chosen = NoCandidate
  /\ pick = NoPick
  /\ wakes = 0
  /\ eng = NoEngine
  /\ engNow = FirstInstant
  /\ engLog = <<>>

\* CanvasManager.applyManifest(manifest); a player takes a new manifest while
\* none of its ticks is suspended
ApplyManifest ==
  /\ \E m \in ManagerManifests, th \in [MgrCanvasIds -> BOOLEAN] :
       /\ \A c \in Wanted(normalize(m)) :
            /\ players[c].f.pc = "idle"
            /\ players[c].p.manifestVersion < MaxVersion
       /\ players' = [c \in MgrCanvasIds |->
                        ApplyOne(players[c], c, normalize(m), Wanted(normalize(m)),
                                 clock, th[c])]
       /\ manifest' = m
  /\ UNCHANGED <<nowJS, candidates, chosen, pick, wakes, canvasVars, engVars, hostVars>>

\* variant: a tick of one player clears the timers of the others
PlayerTimerFiresStopsAll(c) ==
  /\ players[c].p.loopTimer.armed
  /\ players[c].f.pc = "idle"
  /\ \E threw \in BOOLEAN :
       LET r == TickBegin([players[c].p EXCEPT !.loopTimer = NoTimer],
                          players[c].p.manifestVersion, clock, threw)
       IN players' = [d \in MgrCanvasIds |->
                        IF d = c THEN [players[d] EXCEPT !.p = r.cp, !.f = r.frame]
                        ELSE [players[d] EXCEPT !.p = stopLoop(@)]]
  /\ UNCHANGED <<schedVars, canvasVars, engVars, hostVars>>

\* the loop timer of the player of canvas c fires
PlayerTimerFires(c) ==
  /\ players[c].p.loopTimer.armed
  /\ players[c].f.pc = "idle"
  /\ \E threw \in BOOLEAN :
       LET r == TickBegin([players[c].p EXCEPT !.loopTimer = NoTimer],
                          players[c].p.manifestVersion, clock, threw)
       IN players' = [players EXCEPT ![c].p = r.cp, ![c].f = r.frame]
  /\ UNCHANGED <<schedVars, canvasVars, engVars, hostVars>>

\* the suspended tick of the player of canvas c resumes
PlayerResumes(c) ==
  /\ \E o \in Resumed(players[c].p, players[c].f) :
       players' = [players EXCEPT ![c].p = o.p, ![c].f = o.f]
  /\ UNCHANGED <<schedVars, canvasVars, engVars, hostVars>>

ManagerNext ==
  \/ ApplyManifest
  \/ \E c \in MgrCanvasIds :
       \/ PlayerTimerFires(c)
       \/ PlayerResumes(c)

(***************************************************************************)
(* A ScheduleEngine driven on its own: manifests are applied, next() is    *)
(* called and time passes.                                                 *)
(***************************************************************************)
\* longest item list given to the engine
MaxEngItems == 3
\* next() calls followed after one updateManifest
MaxCalls == 4

EngineItem(name, pr, media, from, to) == CanvasItem(name, pr, media, from, to, CanvasId)

EngineItems ==
  {EngineItem("b", 5, LayoutDoc("X"), <<>>, <<>>),
   EngineItem("A", 5, LayoutDoc("Y"), <<>>, <<>>),
   EngineItem("a", 5, PlaylistDoc("Z"), <<>>, <<>>),
   EngineItem("B", 5, LayoutDoc("W"), T0900, T1700),
   EngineItem("a", 1, LayoutDoc("L"), <<>>, <<>>),
   EngineItem("a", 9, OtherDoc("O"), <<>>, <<>>)}

\* the lists applied after list: one item more at the end, or one less
EngineLists(list) ==
  (IF Len(list) < MaxEngItems THEN {Append(list, it) : it \in EngineItems} ELSE {})
  \cup (IF Len(list) > 0 THEN {SubSeq(list, 1, Len(list) - 1)} ELSE {})

\* 08:59:59.999, 09:00:00.000 and 17:00:00.001 of day 1 in the default zone
EngineInstants ==
  {MsPerDay + 9 * MsPerHour - 1 - ZoneOffsetMs(DEFAULT_TZ),
   MsPerDay + 9 * MsPerHour - ZoneOffsetMs(DEFAULT_TZ),
   MsPerDay + 17 * MsPerHour + 1 - ZoneOffsetMs(DEFAULT_TZ)}

EngineInit ==
  /\ eng = NoEngine
  /\ engNow = FirstInstant
  /\ engLog = <<>>
  /\ players = NoPlayers
  /\ an = NoAnalytics
  /\ watch = NoWatch
  /\ cp = NewCanvasPlayer
  /\ ticks = NoTicks
  /\ clock = FirstInstant
  /\ manifest = NoManifest
  /\ nowJS = 0
  /\ candidates = <<>>
  /\ chosen = NoCandidate
  /\ pick = NoPick
  /\ wakes = 0

\* engine.updateManifest(items)
EngineApplies ==
  /\ \E items \in EngineLists(eng.items) : eng' = EngineUpdateManifest(items)
  /\ engLog' = <<>>
  /\ UNCHANGED <<engNow, schedVars, canvasVars, mgrVars, hostVars>>

\* engine.next(now); the log keeps the tied group of the instant, the
\* position returned and the instant
EngineCalledWith(r, group) ==
  /\ eng' = r.engine
  /\ engLog' = Append(engLog, [group |-> group, pos |-> r.pos, now |-> engNow])

EngineCalled ==
  /\ eng.present
  /\ Len(engLog) < MaxCalls
  /\ EngineCalledWith(EngineNext(eng, engNow), Snapshot(eng.items, engNow).tiedGroup)
  /\ UNCHANGED <<engNow, schedVars, canvasVars, mgrVars, hostVars>>

EngineClockAdvances ==
  /\ \E t \in EngineInstants : t > engNow /\ engNow' = t
  /\ UNCHANGED <<eng, engLog, schedVars, canvasVars, mgrVars, hostVars>>

EngineSpecNext == EngineApplies \/ EngineCalled \/ EngineClockAdvances

(***************************************************************************)
(* The boundary loop that drives pickActiveContent.                        *)
(***************************************************************************)
SchedInit ==
  /\ \/ /\ manifest \in OneItemManifests
        /\ nowJS \in UNION {InstantsOf(tz, 1, MaxDay) : tz \in ZonesOf(manifest)}
     \/ /\ manifest \in MultiItemManifests \cup ShapeManifests
        /\ nowJS \in UNION {InstantsOf(tz, 1, 1) : tz \in ZonesOf(manifest)}
  /\ candidates = <<>>
  /\ chosen = NoCandidate
  /\ pick = NoPick
  /\ wakes = 0
  /\ cp = NewCanvasPlayer
  /\ ticks = NoTicks
  /\ clock = FirstInstant
  /\ eng = NoEngine
  /\ engNow = FirstInstant
  /\ engLog = <<>>
  /\ players = NoPlayers
  /\ an = NoAnalytics
  /\ watch = NoWatch

\* applySchedule: const pick = pickActiveContent(doc, new Date()); Date.now()
\* inside the call is read no earlier than the Date passed in
Evaluate ==
  /\ pick.kind = "unset"
  /\ \E skew \in {0, 1} :
       LET run == PickRun(manifest, nowJS, nowJS + skew)
       IN /\ candidates' = run.candidates
          /\ chosen' = run.chosen
          /\ pick' = run.pick
  /\ UNCHANGED <<manifest, nowJS, wakes, canvasVars, engVars, mgrVars, hostVars>>

\* the boundary timer: delay = Math.max(250, pick.nextCheck - Date.now()),
\* after which applySchedule evaluates again
Wake ==
  /\ pick.kind # "unset"
  /\ wakes < MaxWakes
  /\ wakes' = wakes + 1
  /\ LET delay == IF pick.nextCheck - nowJS > 250 THEN pick.nextCheck - nowJS ELSE 250
     IN nowJS' = nowJS + delay
  /\ candidates' = <<>>
  /\ chosen' = NoCandidate
  /\ pick' = NoPick
  /\ UNCHANGED <<manifest, canvasVars, engVars, mgrVars, hostVars>>

SchedNext == Evaluate \/ Wake

(***************************************************************************)
(* The legacy evaluator (pickActiveContent over recipe.events,             *)
(* src/src/schedule.ts 502-557) under the same boundary loop.              *)
(*                                                                         *)
(* A legacy document is [events]; an event is [start, until, byDay,        *)
(* priority, timeZone, params]: until is recurrenceRules[0].until, byDay   *)
(* the day strings of recurrenceRules[0].byDay, params is                  *)
(* playlist.media_templates[0].params.  A JavaScript number is [nan, ms].  *)
(***************************************************************************)
\* events of the longest legacy document
MaxEvents == 2

Num(ms) == [nan |-> FALSE, ms |-> ms]
NaN == [nan |-> TRUE, ms |-> 0]

\* parseUntil(rule, tz): null when until is absent, else DateTime.fromISO
parseUntil(until, tz) == FromISOOrNull(until, tz)

\* allowedToday(rule, tzNow) of the legacy evaluator
LegacyAllowedToday(byDay, weekday) ==
  IF Len(byDay) = 0 THEN TRUE
  ELSE \E i \in 1..Len(byDay) :
         toByDayCode(byDay[i]) # "" /\ toByDayCode(byDay[i]) = dayCodeFromLuxon(weekday)

\* start.isValid ? now >= start : true
LegacyStarted(start, now) == IF start.isValid THEN now >= start.ms ELSE TRUE

\* until ? now <= until : true; a comparison with an invalid DateTime is false
LegacyNotEnded(until, now) ==
  IF until.isNull THEN TRUE ELSE (until.isValid /\ now <= until.ms)

\* the next boundary to re-check; toMillis() of an invalid DateTime is NaN
LegacyNextCheck(start, until, started, now) ==
  IF ~started /\ start.isValid THEN Num(start.ms)
  ELSE IF ~until.isNull
       THEN (IF until.isValid THEN Num(until.ms + 1) ELSE NaN)
       ELSE Num(now + MsPerHour)

\* one element of candidates: the body of events.map((ev, idx) => ...)
LegacyCandidate(ev, idx, now) ==
  LET tz == IF ev.timeZone # "" THEN ev.timeZone ELSE "UTC"
      start == FromISOOrNull(ev.start, tz)
      until == parseUntil(ev.until, tz)
      started == LegacyStarted(start, now)
  IN [idx |-> idx, ev |-> ev,
      active |-> /\ LegacyAllowedToday(ev.byDay, Weekday(now, tz))
                 /\ started
                 /\ LegacyNotEnded(until, now),
      priority |-> ev.priority,
      nextCheckMs |-> LegacyNextCheck(start, until, started, now)]

LegacyCandidates(events, now) ==
  [i \in 1..Len(events) |-> LegacyCandidate(events[i], i - 1, now)]

\* Math.min over numbers: NaN if one of them is NaN
LegacyMin(cands) ==
  IF \E i \in 1..Len(cands) : cands[i].nextCheckMs.nan THEN NaN
  ELSE Num(MinOf({cands[i].nextCheckMs.ms : i \in 1..Len(cands)}))

IsActive(c) == c.active

NoLegacyCandidate ==
  [idx |-> 0 - 1, ev |-> <<>>, active |-> FALSE, priority |-> 0, nextCheckMs |-> Num(0)]

\* the call on the candidates of a document with events
LegacyPickOf(cands, actives) ==
  IF Len(actives) = 0
  THEN [candidates |-> cands, chosen |-> NoLegacyCandidate,
        pick |-> [kind |-> "none", layout |-> NoLayout, nextCheck |-> LegacyMin(cands)]]
  ELSE IF SortActives(actives)[1].ev.params.k = "obj"
          /\ SortActives(actives)[1].ev.params.type = "layout"
  THEN [candidates |-> cands, chosen |-> SortActives(actives)[1],
        pick |-> [kind |-> "layout", layout |-> SortActives(actives)[1].ev.params,
                  nextCheck |-> LegacyMin(cands)]]
  ELSE [candidates |-> cands, chosen |-> SortActives(actives)[1],
        pick |-> [kind |-> "none", layout |-> NoLayout, nextCheck |-> LegacyMin(cands)]]

\* the locals of one call of the legacy pickActiveContent
LegacyPickRun(doc, now, wallNow) ==
  IF Len(doc.events) = 0
  THEN [candidates |-> <<>>, chosen |-> NoLegacyCandidate,
        pick |-> [kind |-> "none", layout |-> NoLayout,
                  nextCheck |-> Num(wallNow + 60 * MsPerSecond)]]
  ELSE LegacyPickOf(LegacyCandidates(doc.events, now),
                    SelectSeq(LegacyCandidates(doc.events, now), IsActive))

\* the events the legacy evaluator is run on
StartEarly == IsoDate(1 * MsPerDay + 9 * MsPerHour)
UntilSample == IsoDate(1 * MsPerDay + 17 * MsPerHour)

LegacyEvents ==
  [start : {AbsentDate, BadDate, StartEarly},
   until : {AbsentDate, BadDate, UntilSample},
   byDay : {<<>>, <<"MO", "we">>},
   priority : {1, 5},
   timeZone : {""},
   params : {LayoutDoc("L"), NoLayout}]

LegacyDocs == {[events |-> evs] : evs \in SeqsUpTo(LegacyEvents, MaxEvents)}

LegacyInit ==
  /\ manifest \in LegacyDocs
  /\ nowJS \in InstantsOf("UTC", 1, 2)
  /\ candidates = <<>>
  /\ chosen = NoLegacyCandidate
  /\ pick = NoPick
  /\ wakes = 0
  /\ cp = NewCanvasPlayer
  /\ ticks = NoTicks
  /\ clock = FirstInstant
  /\ eng = NoEngine
  /\ engNow = FirstInstant
  /\ engLog = <<>>
  /\ players = NoPlayers
  /\ an = NoAnalytics
  /\ watch = NoWatch

\* applySchedule: const pick = pickActiveContent(doc, new Date())
LegacyEvaluate ==
  /\ pick.kind = "unset"
  /\ \E skew \in {0, 1} :
       LET run == LegacyPickRun(manifest, nowJS, nowJS + skew)
       IN /\ candidates' = run.candidates
          /\ chosen' = run.chosen
          /\ pick' = run.pick
  /\ UNCHANGED <<manifest, nowJS, wakes, canvasVars, engVars, mgrVars, hostVars>>

\* the boundary timer of applySchedule.  new Date(pick.nextCheck).toISOString()
\* throws a RangeError for NaN before the timer is armed
LegacyWake ==
  /\ pick.kind # "unset"
  /\ ~pick.nextCheck.nan
  /\ wakes < MaxWakes
  /\ wakes' = wakes + 1
  /\ nowJS' = nowJS + Max2(250, pick.nextCheck.ms - nowJS)
  /\ candidates' = <<>>
  /\ chosen' = NoLegacyCandidate
  /\ pick' = NoPick
  /\ UNCHANGED <<manifest, canvasVars, engVars, mgrVars, hostVars>>

LegacyNext == LegacyEvaluate \/ LegacyWake

(***************************************************************************)
(* AnalyticsClient (src/unnamed/part_009): rows are queued, flushOnce posts *)
(* the head of the queue as one batch and retries a failed batch.          *)
(***************************************************************************)
\* the maxBatch and maxRetry the client is configured with
maxBatch == 2
maxRetry == 1

\* queue.slice(0, n) and what queue.splice(0, n) leaves
Slice(q, n) == SubSeq(q, 1, Min2(n, Len(q)))
Spliced(q, n) == SubSeq(q, Min2(n, Len(q)) + 1, Len(q))

\* the rows of a list of queue entries
Ids(q) == {q[i].id : i \in 1..Len(q)}

\* enqueue(row): queue.push({ row, tries: 0 })
enqueue(a) ==
  [a EXCEPT !.queue = Append(@, [id |-> a.enqueued + 1, tries |-> 0]),
            !.enqueued = @ + 1]

\* variant: flushOnce without the inflight guard
MayFlushWhileInflight(a) == Len(a.queue) > 0

\* the guards of flushOnce (endpointBase is set, or the loop would not run)
MayFlush(a) == ~a.inflight /\ Len(a.queue) > 0

\* flushOnce from inflight = true to the await of fetch: the batch is the
\* head of the queue and is posted by activation s
flushOnceBegin(a, s) ==
  [a EXCEPT !.inflight = TRUE,
            !.flushes[s] = [pc |-> "post", batch |-> Slice(a.queue, maxBatch)],
            !.attempts = [r \in 1..MaxRows |->
                            IF r \in Ids(Slice(a.queue, maxBatch))
                            THEN a.attempts[r] + 1 ELSE a.attempts[r]]]

\* handleRetry for a batch of n entries, up to its sleep: tries++ on the
\* first n entries of the queue, then the entries over maxRetry are dropped
handleRetry(q, n) ==
  SelectSeq([i \in 1..Len(q) |->
               IF i <= n THEN [q[i] EXCEPT !.tries = @ + 1] ELSE q[i]],
            LAMBDA e : e.tries <= maxRetry)

\* variant: the response removes what is now the head of the queue, up to
\* maxBatch entries
AfterOkSlicedAgain(a, s) ==
  [a EXCEPT !.queue = Spliced(@, Len(Slice(a.queue, maxBatch))),
            !.acked = @ \cup Ids(a.flushes[s].batch),
            !.flushes[s] = NoFlush,
            !.inflight = FALSE]

\* res.ok: queue.splice(0, batch.length), and the finally
AfterOk(a, s) ==
  [a EXCEPT !.queue = Spliced(@, Len(a.flushes[s].batch)),
            !.acked = @ \cup Ids(a.flushes[s].batch),
            !.flushes[s] = NoFlush,
            !.inflight = FALSE]

AnalyticsInit ==
  /\ an = NoAnalytics
  /\ watch = NoWatch
  /\ players = NoPlayers
  /\ manifest = NoManifest
  /\ cp = NewCanvasPlayer
  /\ ticks = NoTicks
  /\ clock = FirstInstant
  /\ nowJS = 0
  /\ candidates = <<>>
  /\ chosen = NoCandidate
  /\ pick = NoPick
  /\ wakes = 0
  /\ eng = NoEngine
  /\ engNow = FirstInstant
  /\ engLog = <<>>

\* logEventStart, logEventCompleted, logSOV, logContentAgg, flushAggregates
Enqueue ==
  /\ ~an.unloaded
  /\ an.enqueued < MaxRows
  /\ an' = enqueue(an)
  /\ UNCHANGED <<schedVars, canvasVars, engVars, mgrVars, watch>>

\* the interval timer fires, or flushNow is called: flushOnce up to its
\* first await, or to its return
FlushOnce(s) ==
  /\ ~an.unloaded
  /\ an.flushes[s].pc = "idle"
  /\ an' = IF MayFlush(an) THEN flushOnceBegin(an, s) ELSE an
  /\ UNCHANGED <<schedVars, canvasVars, engVars, mgrVars, watch>>

\* the response is ok
PostOk(s) ==
  /\ ~an.unloaded
  /\ an.flushes[s].pc = "post"
  /\ an' = AfterOk(an, s)
  /\ UNCHANGED <<schedVars, canvasVars, engVars, mgrVars, watch>>

\* the response has a bad status: handleRetry(batch, status) up to its sleep
PostBadStatus(s) ==
  /\ ~an.unloaded
  /\ an.flushes[s].pc = "post"
  /\ an' = [an EXCEPT !.queue = handleRetry(@, Len(an.flushes[s].batch)),
                      !.flushes[s].pc = "sleep"]
  /\ UNCHANGED <<schedVars, canvasVars, engVars, mgrVars, watch>>

\* fetch rejects: handleRetry(this.queue.slice(0, maxBatch), 0) up to its sleep
PostThrows(s) ==
  /\ ~an.unloaded
  /\ an.flushes[s].pc = "post"
  /\ an' = [an EXCEPT !.queue = handleRetry(@, Len(Slice(an.queue, maxBatch))),
                      !.flushes[s].pc = "sleep"]
  /\ UNCHANGED <<schedVars, canvasVars, engVars, mgrVars, watch>>

\* the sleep of handleRetry ends: the finally of flushOnce
RetrySlept(s) ==
  /\ ~an.unloaded
  /\ an.flushes[s].pc = "sleep"
  /\ an' = [an EXCEPT !.flushes[s] = NoFlush, !.inflight = FALSE]
  /\ UNCHANGED <<schedVars, canvasVars, engVars, mgrVars, watch>>

\* beforeunload: the head of the queue goes out with sendBeacon, and the
\* page is gone
BeforeUnload ==
  /\ ~an.unloaded
  /\ an' = [an EXCEPT !.beacon = Ids(Slice(an.queue, maxBatch)), !.unloaded = TRUE]
  /\ UNCHANGED <<schedVars, canvasVars, engVars, mgrVars, watch>>

AnalyticsNext ==
  \/ Enqueue
  \/ \E s \in FlushSlots :
       \/ FlushOnce(s)
       \/ PostOk(s)
       \/ PostBadStatus(s)
       \/ PostThrows(s)
       \/ RetrySlept(s)
  \/ BeforeUnload

(***************************************************************************)
(* The manifest watcher of the main process (src/electron/main.ts).        *)
(***************************************************************************)
\* the texts the manifest file holds: two layouts of the same JSON value,
\* another value, and a file cut off in the middle of a write
Texts == {"x", "x ", "y", "cut"}

\* JSON.parse of the trimmed text whose tail is } or ]; "null": the read
\* gives no object
ParseText(t) ==
  CASE t \in {"x", "x "} -> "X"
    [] t = "y" -> "Y"
    [] OTHER -> "null"

\* computeHash: sha256 of JSON.stringify of the object
computeHash(obj) ==
  CASE obj = "X" -> "hX"
    [] obj = "Y" -> "hY"
    [] OTHER -> ""

\* what readManifestStable can return when it settles: the object of a file
\* that is there, stable and complete, or null when its budget runs out
readManifestStable(disk) ==
  {"null"} \cup (IF disk # "absent" /\ ParseText(disk) # "null"
                 THEN {ParseText(disk)} ELSE {})

\* variant: every object read from disk is sent
BroadcastAlways(w, json) ==
  IF json = "null" THEN w
  ELSE [w EXCEPT !.lastManifestHash = computeHash(json),
                 !.lastManifestObject = json,
                 !.sent = Append(@, json),
                 !.cleared = FALSE]

\* maybeBroadcastFromDisk after its await, for what the read returned
maybeBroadcastFromDisk(w, json) ==
  IF json = "null" THEN w
  ELSE IF computeHash(json) # "" /\ computeHash(json) # w.lastManifestHash
  THEN [w EXCEPT !.lastManifestHash = computeHash(json),
                 !.lastManifestObject = json,
                 !.sent = Append(@, json),
                 !.cleared = FALSE]
  ELSE w

\* the handler of zcast:read-manifest and the priming read of startWatch,
\* after their await
Primed(w, json) ==
  IF json = "null" THEN w
  ELSE [w EXCEPT !.lastManifestObject = json,
                 !.lastManifestHash = computeHash(json)]

\* startWatch() was called: the priming read is in flight; the file may
\* exist already
WatchInit ==
  /\ watch \in {[NoWatch EXCEPT !.reads[1] = [pc |-> "prime"], !.disk = d] :
                  d \in {"absent", "x"}}
  /\ an = NoAnalytics
  /\ players = NoPlayers
  /\ manifest = NoManifest
  /\ cp = NewCanvasPlayer
  /\ ticks = NoTicks
  /\ clock = FirstInstant
  /\ nowJS = 0
  /\ candidates = <<>>
  /\ chosen = NoCandidate
  /\ pick = NoPick
  /\ wakes = 0
  /\ eng = NoEngine
  /\ engNow = FirstInstant
  /\ engLog = <<>>

\* the file is written; a pending unlink becomes a change
FileWritten ==
  /\ watch.writes < MaxWrites
  /\ \E t \in Texts :
       watch' = [watch EXCEPT !.disk = t, !.unlinked = FALSE, !.writes = @ + 1]
  /\ UNCHANGED <<schedVars, canvasVars, engVars, mgrVars, an>>

\* the file is removed
FileUnlinked ==
  /\ watch.writes < MaxWrites
  /\ watch.disk # "absent"
  /\ watch' = [watch EXCEPT !.disk = "absent", !.unlinked = TRUE, !.writes = @ + 1]
  /\ UNCHANGED <<schedVars, canvasVars, engVars, mgrVars, an>>

\* chokidar emits unlink: the cache is cleared
UnlinkEvent ==
  /\ watch.unlinked
  /\ watch' = [watch EXCEPT !.lastManifestHash = "", !.lastManifestObject = "null",
                            !.unlinked = FALSE, !.cleared = TRUE]
  /\ UNCHANGED <<schedVars, canvasVars, engVars, mgrVars, an>>

\* chokidar emits add or change: maybeBroadcastFromDisk up to its await
FileEvent(s) ==
  /\ watch.disk # "absent"
  /\ watch.reads[s].pc = "idle"
  /\ watch' = [watch EXCEPT !.reads[s] = [pc |-> "watch"]]
  /\ UNCHANGED <<schedVars, canvasVars, engVars, mgrVars, an>>

\* the renderer invokes zcast:read-manifest: the cached object is returned,
\* or a read is started
ReadManifestInvoked(s) ==
  /\ watch.reads[s].pc = "idle"
  /\ watch' = IF watch.lastManifestObject # "null" THEN watch
              ELSE [watch EXCEPT !.reads[s] = [pc |-> "ipc"]]
  /\ UNCHANGED <<schedVars, canvasVars, engVars, mgrVars, an>>

\* readManifestStable settles and its caller goes on
ReadSettles(s) ==
  /\ watch.reads[s].pc # "idle"
  /\ \E json \in readManifestStable(watch.disk) :
       watch' = [(IF watch.reads[s].pc = "watch"
                  THEN maybeBroadcastFromDisk(watch, json)
                  ELSE Primed(watch, json))
                 EXCEPT !.reads[s] = NoRead,
                        !.lastRead = [why |-> watch.reads[s].pc, json |-> json]]
  /\ UNCHANGED <<schedVars, canvasVars, engVars, mgrVars, an>>

WatchNext ==
  \/ FileWritten
  \/ FileUnlinked
  \/ UnlinkEvent
  \/ \E s \in ReadSlots :
       \/ FileEvent(s)
       \/ ReadManifestInvoked(s)
       \/ ReadSettles(s)

(***************************************************************************)
(* Specifications.                                                         *)
(***************************************************************************)
vars == <<schedVars, canvasVars, engVars, mgrVars, hostVars>>

\* the evaluator under its boundary loop
SpecSched == SchedInit /\ [][SchedNext]_vars

\* the legacy evaluator under its boundary loop
SpecLegacy == LegacyInit /\ [][LegacyNext]_vars

\* the engine on its own
SpecEngine == EngineInit /\ [][EngineSpecNext]_vars

\* one canvas
Spec == CanvasInit /\ [][CanvasNext]_vars

\* the manager and the canvases it creates
SpecManager == ManagerInit /\ [][ManagerNext]_vars

\* the manifest watcher
SpecWatch == WatchInit /\ [][WatchNext]_vars

\* the analytics client
SpecAnalytics == AnalyticsInit /\ [][AnalyticsNext]_vars

\* one canvas, with manifests that move it
SpecGeometry == CanvasInit /\ [][GeometryNext]_vars

\* one canvas that is given a single manifest
FirstManifest == cp.manifestVersion = 0 /\ UpdateManifest

LiveNext ==
  \/ FirstManifest
  \/ Unmount
  \/ TimerFires
  \/ \E s \in Slots :
       \/ RendererLoaded(s)
       \/ RendererLoadFails(s)
       \/ BackStopped(s)
       \/ BackPlaying(s)
       \/ BackReady(s)
       \/ SwapSettled(s)
  \/ ClockAdvances

\* what the platform guarantees to a preparation: the load of a renderer
\* bundle settles, one way or the other.  Nothing makes the promise of a
\* renderer's stop() or play() settle
Guaranteed == \E s \in Slots : RendererLoaded(s) \/ RendererLoadFails(s)

\* that canvas, as long as something guaranteed is pending
SpecLive ==
  /\ CanvasInit
  /\ [][LiveNext]_vars
  /\ WF_vars(Guaranteed)

(***************************************************************************)
(* Properties of the evaluator.                                            *)
(***************************************************************************)
Evaluated == pick.kind # "unset"

Items == normalize(manifest)

LocalTod(ms, tz) == LocalMs(ms, tz) % MsPerDay

OnlyWindow0917(d) ==
  /\ d.inceptAt = AbsentDate /\ d.expireAt = AbsentDate
  /\ d.fromTime = T0900 /\ d.toTime = T1700
  /\ d.days = <<>> /\ ~d.workingDays /\ ~d.weekend

\* C7 as claimed: such an item is active at 09:00:00.000 and 16:59:59.999 and
\* inactive at 08:59:59.999 and at 17:00:00.000, in its own zone, on every day.
C7_WindowBoundsAsClaimed ==
  Evaluated =>
    \A i \in 1..Len(candidates) :
      OnlyWindow0917(Items[i]) =>
        LET tod == LocalTod(nowJS, ZoneOf(Items[i]))
        IN /\ (tod = 9 * MsPerHour => candidates[i].active)
           /\ (tod = 17 * MsPerHour - 1 => candidates[i].active)
           /\ (tod = 9 * MsPerHour - 1 => ~candidates[i].active)
           /\ (tod = 17 * MsPerHour => ~candidates[i].active)

\* C7 (amended): such an item is active exactly from 09:00:00.000 to
\* 17:00:00.000, both bounds included: active at 09:00:00.000, 16:59:59.999
\* and 17:00:00.000, inactive at 08:59:59.999 and at 17:00:00.001, in its own
\* zone, on every day.
C7_WindowBoundsInclusive ==
  Evaluated =>
    \A i \in 1..Len(candidates) :
      OnlyWindow0917(Items[i]) =>
        LET tod == LocalTod(nowJS, ZoneOf(Items[i]))
        IN /\ candidates[i].active <=> (9 * MsPerHour <= tod /\ tod <= 17 * MsPerHour)
           /\ (tod = 9 * MsPerHour => candidates[i].active)
           /\ (tod = 17 * MsPerHour - 1 => candidates[i].active)
           /\ (tod = 17 * MsPerHour => candidates[i].active)
           /\ (tod = 9 * MsPerHour - 1 => ~candidates[i].active)
           /\ (tod = 17 * MsPerHour + 1 => ~candidates[i].active)

\* the item is evaluated at exactly 17:00:00.000 and is active
C7_Witness ==
  /\ Evaluated
  /\ \E i \in 1..Len(candidates) :
       /\ OnlyWindow0917(Items[i])
       /\ LocalTod(nowJS, ZoneOf(Items[i])) = 17 * MsPerHour
       /\ candidates[i].active

\* the sampled instants s of item d with from <= s < to
SamplesBetween(d, from, to) ==
  {s \in InstantsOf(ZoneOf(d), LocalDay(from, ZoneOf(d)), LocalDay(to, ZoneOf(d))) :
     from <= s /\ s < to}

C9_NextBoundaryIsMin ==
  Evaluated =>
    /\ Len(candidates) = Len(Items)
    /\ Len(Items) > 0 =>
         /\ \A i \in 1..Len(Items) :
              pick.nextCheck <= Candidate(Items[i], i - 1, nowJS).nextCheckMs
         /\ \E i \in 1..Len(Items) :
              pick.nextCheck = Candidate(Items[i], i - 1, nowJS).nextCheckMs
    /\ Len(Items) = 0 =>
         /\ pick.kind = "none"
         /\ pick.nextCheck \in {nowJS + 60000, nowJS + 60001}

\* nothing is active and the deadline comes from an item that is inactive or
\* has another payload, while another item has a later deadline
C9_Witness ==
  /\ pick.kind = "none"
  /\ \E i, j \in 1..Len(candidates) :
       /\ ~candidates[i].active
       /\ candidates[i].nextCheckMs = pick.nextCheck
       /\ candidates[j].active
       /\ candidates[j].layout.type # "layout"
       /\ candidates[j].nextCheckMs > pick.nextCheck

\* inceptAt of d is a valid instant later than now, expireAt is absent or a
\* valid instant not earlier than inceptAt
InceptAhead(d, now) ==
  LET inc == FromISOOrNull(d.inceptAt, ZoneOf(d))
      exp == FromISOOrNull(d.expireAt, ZoneOf(d))
  IN /\ inc.isValid /\ now < inc.ms
     /\ (exp.isNull \/ (exp.isValid /\ exp.ms >= inc.ms))

\* C10: for an item whose inceptAt is a valid instant later than now (expireAt
\* absent or not earlier), the evaluation gives active = false and a
\* nextCheckMs equal to inceptAt, whatever its window and day filter are.
C10_InceptAhead ==
  Evaluated =>
    \A i \in 1..Len(candidates) :
      InceptAhead(Items[i], nowJS) =>
        /\ ~candidates[i].active
        /\ candidates[i].nextCheckMs = FromISOOrNull(Items[i].inceptAt, ZoneOf(Items[i])).ms

\* such an item with a window that starts later today and a day filter
C10_Witness ==
  /\ Evaluated
  /\ \E i \in 1..Len(candidates) :
       /\ InceptAhead(Items[i], nowJS)
       /\ Items[i].fromTime = T1700
       /\ Items[i].days # <<>>
       /\ nowJS < todaysWindow(nowJS, ZoneOf(Items[i]), Items[i].fromTime,
                               Items[i].toTime).start

(***************************************************************************)
(* Properties of the rotation selector.                                    *)
(***************************************************************************)
\* the first k logged calls saw the same tied group
SameGroupUpTo(k) == \A j \in 1..k : engLog[j].group = engLog[1].group

InFlight == {s \in Slots : ticks[s].pc # "idle"}

Preparing(s) == ticks[s].pc \in {"load", "stop", "play", "ready"}

\* C2: a tick overtaken by updateManifest while it prepares never swaps the
\* layers and never sets lastGood, and the renderer a swap makes visible
\* holds a document chosen under the current manifest version (the document
\* the swapping tick chose, or one assigned under the current version)
C2_NoStaleDocumentShown ==
  [][\A s \in Slots :
       /\ (/\ Preparing(s)
           /\ ticks[s].versionAtStart # cp.manifestVersion
           /\ ticks'[s] # ticks[s])
            => (cp'.activeStage = cp.activeStage /\ cp'.lastGood = cp.lastGood)
       /\ (ticks[s].pc = "ready" /\ ticks'[s].pc = "swap" /\ cp'.activePlayer # NoEl)
            => \/ cp'.els[cp'.activePlayer].docVer = cp'.manifestVersion
               \/ cp'.els[cp'.activePlayer].doc = ticks[s].doc]_vars

\* the ticks in flight that no manifest update has superseded
InFlightCurrent == {s \in InFlight : ticks[s].versionAtStart = cp.manifestVersion}

\* C3: ticks are strictly sequential: at most one tick is in flight, and no
\* tick is scheduled while the prepare or swap of a tick is pending (a tick
\* superseded by a manifest update is counted as aborted)
C3_TicksSequential ==
  /\ Cardinality(InFlightCurrent) <= 1
  /\ InFlightCurrent # {} => ~cp.loopTimer.armed

\* C5: while the canvas is mounted and has an engine, a tick is in flight or
\* the loop timer is armed
C5_LoopAlwaysArmed ==
  (cp.mounted /\ cp.engine.present) => (InFlight # {} \/ cp.loopTimer.armed)

\* C6: while the canvas is Black, activePlayer and backPlayer are null and
\* no renderer element is a child of either layer
C6_BlackMeansEmpty ==
  cp.isBlack =>
    /\ cp.activePlayer = NoEl
    /\ cp.backPlayer = NoEl
    /\ \A e \in ElIds : cp.els[e].parent = "none"

(***************************************************************************)
(* Properties of the evaluator: purity and the day filter.                 *)
(***************************************************************************)
\* C11: the result of an evaluation is determined by the manifest and the
\* instant passed in: whatever the wall clock reads during the call, the pick
\* returned (kind, payload and nextCheck) is the one the same call returns
\* when the wall clock equals the instant.
C11_PureEvaluation ==
  Evaluated => pick = pickActiveContent(manifest, nowJS, nowJS)

\* the date bounds and the daily window of item d hold at instant now
OtherConstraintsHold(d, now) ==
  /\ WithinDates(FromISOOrNull(d.inceptAt, ZoneOf(d)),
                 FromISOOrNull(d.expireAt, ZoneOf(d)), now)
  /\ now >= todaysWindow(now, ZoneOf(d), d.fromTime, d.toTime).start
  /\ now <= todaysWindow(now, ZoneOf(d), d.fromTime, d.toTime).end

\* what the flags alone allow on a weekday (1 = Monday .. 7 = Sunday)
FlagsAllow(workingDays, weekend, weekday) ==
  IF workingDays /\ ~weekend THEN weekday \in 1..5
  ELSE IF weekend /\ ~workingDays THEN weekday \in {6, 7}
  ELSE TRUE

\* C12: for an item with an empty days list the day filter is decided by the
\* flags alone: workingDays only allows Monday to Friday, weekend only allows
\* Saturday and Sunday, both or neither allow every weekday; so an item whose
\* date bounds and window hold is active exactly on the days its flags allow,
\* and with both flags unset it is active on every day.
C12_FlagsDecideWithoutDays ==
  Evaluated =>
    \A i \in 1..Len(candidates) :
      Items[i].days = <<>> =>
        /\ allowedToday(dayCodeFromLuxon(Weekday(nowJS, ZoneOf(Items[i]))),
                        Items[i].days, Items[i].workingDays, Items[i].weekend)
             = FlagsAllow(Items[i].workingDays, Items[i].weekend,
                          Weekday(nowJS, ZoneOf(Items[i])))
        /\ OtherConstraintsHold(Items[i], nowJS) =>
             (candidates[i].active
                = FlagsAllow(Items[i].workingDays, Items[i].weekend,
                             Weekday(nowJS, ZoneOf(Items[i]))))

\* an item with both flags set and no days list, evaluated on a Saturday
\* inside its bounds, is active
C12_Witness ==
  /\ Evaluated
  /\ \E i \in 1..Len(candidates) :
       /\ Items[i].days = <<>>
       /\ Items[i].workingDays /\ Items[i].weekend
       /\ Weekday(nowJS, ZoneOf(Items[i])) = 6
       /\ OtherConstraintsHold(Items[i], nowJS)
       /\ candidates[i].active

\* the code of the weekday is an entry of the days list (entries are compared
\* in lower case)
DayListed(days, weekday) ==
  \E k \in 1..Len(days) : LowerCase(days[k]) = DOW[weekday]

\* C13: for an item with a non-empty days list, an item whose date bounds and
\* window hold is active if and only if the code of today's weekday is in the
\* list, for every combination of the workingDays and weekend flags.
C13_DaysOverrideFlags ==
  Evaluated =>
    \A i \in 1..Len(candidates) :
      Items[i].days # <<>> =>
        /\ candidates[i].active => DayListed(Items[i].days, Weekday(nowJS, ZoneOf(Items[i])))
        /\ OtherConstraintsHold(Items[i], nowJS) =>
             (candidates[i].active
                = DayListed(Items[i].days, Weekday(nowJS, ZoneOf(Items[i]))))

\* an item with a days list and both flags set, evaluated inside its bounds
\* on a weekday that is not listed, is inactive
C13_Witness ==
  /\ Evaluated
  /\ \E i \in 1..Len(candidates) :
       /\ Items[i].days # <<>>
       /\ Items[i].workingDays /\ Items[i].weekend
       /\ ~DayListed(Items[i].days, Weekday(nowJS, ZoneOf(Items[i])))
       /\ OtherConstraintsHold(Items[i], nowJS)
       /\ ~candidates[i].active

(***************************************************************************)
(* Properties of unparseable dates.                                        *)
(***************************************************************************)
\* C14: an event whose start or until is present but unparseable is inactive
\* at the instant of the evaluation, and the evaluation still returns a
\* finite next-check instant (for the event and for the call).
C14_BadDateNotSatisfied ==
  Evaluated =>
    \A i \in 1..Len(candidates) :
      (manifest.events[i].start = BadDate \/ manifest.events[i].until = BadDate) =>
        /\ ~candidates[i].active
        /\ ~candidates[i].nextCheckMs.nan
        /\ ~pick.nextCheck.nan

(***************************************************************************)
(* Properties of the payload filter.                                       *)
(***************************************************************************)
\* the payload is a layout or a playlist document
RecognizedPayload(media) == media.k = "obj" /\ media.type \in {"layout", "playlist"}

\* C15: an item whose payload is absent or is neither a layout nor a playlist
\* document is never the item returned, whatever its priority and position;
\* and it hides nothing: whenever some item is active with a layout payload,
\* an item is returned and its priority is at least that item's.
C15_UnrecognizedNeverSelected ==
  Evaluated =>
    /\ pick.kind = "layout" =>
         /\ RecognizedPayload(pick.layout)
         /\ RecognizedPayload(Items[chosen.idx + 1].media)
    /\ pick.kind = "none" => chosen = NoCandidate
    /\ \A i \in 1..Len(candidates) :
         (candidates[i].active /\ Items[i].media.k = "obj"
            /\ Items[i].media.type = "layout")
           => (pick.kind = "layout" /\ chosen.priority >= candidates[i].priority)

\* an active item with another payload and a higher priority stands in the
\* manifest, and the lower-priority layout is returned
C15_Witness ==
  /\ pick.kind = "layout"
  /\ \E j \in 1..Len(candidates) :
       /\ candidates[j].active
       /\ ~RecognizedPayload(Items[j].media)
       /\ candidates[j].priority > chosen.priority

\* C16: an item whose payload is a playlist document and whose date, day and
\* time constraints hold can be selected: when it is active and no other
\* active item with a recognized payload has a priority as high as its own,
\* the evaluation returns it.
C16_PlaylistSelectable ==
  Evaluated =>
    \A i \in 1..Len(candidates) :
      (/\ candidates[i].active
       /\ Items[i].media.k = "obj" /\ Items[i].media.type = "playlist"
       /\ \A j \in 1..Len(candidates) :
            (j # i /\ candidates[j].active /\ RecognizedPayload(Items[j].media))
              => candidates[j].priority < candidates[i].priority)
        => (pick.kind # "none" /\ pick.layout = Items[i].media)

(***************************************************************************)
(* Properties of the coordinator: redundancy guard, blackout, fallback.    *)
(***************************************************************************)
\* the document of the renderer in the visible layer
ShownDoc == IF cp.activePlayer = NoEl THEN NoLayout ELSE cp.els[cp.activePlayer].doc

\* a tick of this step is left suspended in a preparation
StartsPreparing == \E s \in Slots : ticks[s].pc = "idle" /\ ticks'[s].pc = "load"

\* the manifest is static, its only item is the one shown, no tick in flight
OnlyItemShown ==
  /\ Len(cp.engine.items) = 1
  /\ cp.activePlayer # NoEl
  /\ ShownDoc = cp.engine.items[1].media
  /\ InFlight = {}

\* C17: when the manifest is static and the only item of the canvas is the
\* one currently shown, no later tick prepares or swaps: a step that keeps
\* the manifest starts no preparation and leaves the renderers, the layers,
\* their visibility, lastGood and the analytics span as they are.
C17_RedundancyGuard ==
  [][(OnlyItemShown /\ cp'.manifestVersion = cp.manifestVersion) =>
       /\ ~StartsPreparing
       /\ cp'.els = cp.els
       /\ cp'.visible = cp.visible
       /\ cp'.activeStage = cp.activeStage
       /\ cp'.activePlayer = cp.activePlayer
       /\ cp'.backPlayer = cp.backPlayer
       /\ cp'.lastGood = cp.lastGood
       /\ cp'.lastStartAt = cp.lastStartAt
       /\ cp'.lastEventId = cp.lastEventId]_vars

\* no item of the canvas is active with a recognized payload at the clock
NothingActive(p) == Len(Snapshot(p.engine.items, clock).tiedGroup) = 0

\* C18: a manifest with no item for the canvas puts the canvas in the Black
\* state with a re-check pending, and every delay the loop timer is armed
\* with while nothing is active lies between 250 ms and 1000 ms.
C18_BlackRecheckBounded ==
  [][/\ (cp'.manifestVersion # cp.manifestVersion /\ Len(cp'.engine.items) = 0)
          => (cp'.isBlack /\ cp'.loopTimer.armed)
     /\ (cp'.loopTimer.armed /\ cp'.loopTimer # cp.loopTimer /\ NothingActive(cp'))
          => (cp'.loopTimer.ms >= 250 /\ cp'.loopTimer.ms <= 1000)]_vars

\* C19: with the two unrestricted items of priorities 1 and 2 every tick that
\* prepares an item prepares the priority-2 item; once an update has removed
\* it, every tick that prepares an item prepares the priority-1 item, and the
\* swap such a tick commits does not put the removed item's document on
\* screen.
C19_FallbackAfterRemoval ==
  [][\A s \in Slots :
       /\ (ticks[s].pc = "idle" /\ ticks'[s].pc = "load"
             /\ cp'.engine.items = <<ItemA, ItemH>>)
            => ticks'[s].doc = ItemH.media
       /\ (ticks[s].pc = "idle" /\ ticks'[s].pc = "load"
             /\ cp'.engine.items = <<ItemA>>)
            => ticks'[s].doc = ItemA.media
       /\ (ticks[s].pc = "ready" /\ ticks'[s].pc = "swap"
             /\ cp.engine.items = <<ItemA>> /\ cp'.activePlayer # NoEl)
            => cp'.els[cp'.activePlayer].doc # ItemH.media]_vars

(***************************************************************************)
(* Properties of the rotation selector: the key of the tied group.         *)
(***************************************************************************)
\* this step is a next() call that found a tied group
NextCallReturns == Len(engLog') = Len(engLog) + 1 /\ engLog'[Len(engLog')].pos # 0

\* C20: on a next() call whose snapshot key (top priority and the ordered
\* identities of the tied group) differs from the stored key, the cursor
\* restarts at 0 and the new key is stored: the call returns the first member
\* of the new group and leaves the cursor at 1 mod length; on a call whose
\* key equals the stored key the member at the stored cursor is returned and
\* the cursor advances from where it stood.
C20_KeyChangeResetsCursor ==
  [][NextCallReturns =>
       LET snap == Snapshot(eng.items, engNow)
           len == Len(snap.tiedGroup)
           pos == engLog'[Len(engLog')].pos
       IN /\ eng'.key = snap.key
          /\ snap.key # eng.key =>
               (pos = snap.tiedGroup[1] /\ eng'.cursor = 1 % len)
          /\ snap.key = eng.key =>
               (pos = snap.tiedGroup[(eng.cursor % len) + 1]
                  /\ eng'.cursor = (eng.cursor + 1) % len)]_vars

\* after one call on a group of two the group grows (an item's window
\* opens), and the next call returns the first member of the new group
C20_Witness ==
  /\ Len(engLog) = 2
  /\ Len(engLog[1].group) = 2
  /\ engLog[1].pos = engLog[1].group[1]
  /\ Len(engLog[2].group) = 3
  /\ engLog[2].pos = engLog[2].group[1]
  /\ eng.cursor = 1

\* the positions of the items active with a recognized payload at instant now
ActiveAt(items, now) ==
  {i \in 1..Len(items) :
     Candidate(items[i], i - 1, now).active /\ RecognizedPayload(items[i].media)}

C22_StayWithinBounds ==
  (/\ cp.loopTimer.armed
   /\ ~cp.isBlack
   /\ cp.lastGood # NoLastGood
   /\ cp.engine.present
   /\ clock = FirstInstant)
  => /\ cp.loopTimer.ms >= EngineFloorMs
     /\ cp.loopTimer.ms <= Snapshot(cp.engine.items, clock).nextBoundary - clock

\* the activation in slot s ends in this step because prepareOffscreen threw
PrepareThrew(s) == ticks[s].pc = "load" /\ ticks'[s].pc = "idle"

\* the activation in slot s ends in this step because swapLayers threw
SwapThrew(s) ==
  /\ ticks[s].pc = "ready"
  /\ ticks[s].versionAtStart = cp.manifestVersion
  /\ ticks'[s].pc = "idle"

\* C23: a step in which prepareOffscreen or swapLayers throws leaves the active
\* layer, the active renderer, what it shows and lastGood as they were, and
\* leaves the loop timer armed.
C23_ThrowKeepsVisibleContent ==
  [][\A s \in Slots :
       (PrepareThrew(s) \/ SwapThrew(s)) =>
         /\ cp'.activeStage = cp.activeStage
         /\ cp'.activePlayer = cp.activePlayer
         /\ cp'.visible = cp.visible
         /\ cp'.els = cp.els
         /\ cp'.lastGood = cp.lastGood
         /\ cp'.loopTimer.armed]_vars

\* under the first manifest an item is on screen, no tick is in flight, the
\* timer is armed and the metadata of a later item is still pending: the
\* preparation of that item threw
C23_Witness ==
  /\ cp.manifestVersion = 1
  /\ cp.managed
  /\ InFlight = {}
  /\ cp.nextMeta # NoMeta
  /\ cp.loopTimer.armed
  /\ cp.lastGood # NoLastGood
  /\ cp.activePlayer # NoEl
  /\ cp.nextMeta.id # cp.lastGood.id

\* C24: every preparation terminates: a tick that is preparing the hidden
\* layer gets past prepareOffscreen, whether or not the renderer's requests
\* settle.
C24_PreparationTerminates ==
  \A s \in Slots : Preparing(s) ~> ~Preparing(s)

\* the tick in slot s returns in this step because the version has advanced
Aborts(s) ==
  /\ ticks[s].pc = "ready"
  /\ ticks[s].versionAtStart # cp.manifestVersion
  /\ ticks'[s].pc = "idle"

\* C25: when a tick aborts because the manifest version advanced and no other
\* tick is left in flight to prepare the hidden layer again, the renderer of
\* the hidden layer is gone, or is not playing, or no longer holds the
\* document the aborted tick prepared.
C25_AbortDiscardsBackBuffer ==
  [][\A s \in Slots :
       (Aborts(s) /\ \A o \in Slots : ticks'[o].pc = "idle") =>
         \/ cp'.backPlayer = NoEl
         \/ cp'.els[cp'.backPlayer].mode # "playing"
         \/ cp'.els[cp'.backPlayer].doc # ticks[s].doc]_vars

\* the swap of the tick in slot s completes in this step and starts a span
StartsSpan(s) ==
  /\ ticks[s].pc = "swap"
  /\ ticks'[s].pc = "idle"
  /\ cp'.lastEventId # ""

\* C28: no analytics span is open (a started event whose completion has not
\* been logged) while the canvas is black or unmounted; a span is started
\* only by a swap that leaves a renderer on the visible layer, and only when
\* the span before it has been finished.
C28_SpansWellNested ==
  /\ []((cp.isBlack \/ ~cp.mounted) => cp.lastEventId = "")
  /\ [][\A s \in Slots :
          StartsSpan(s) => (cp.lastEventId = "" /\ cp'.activePlayer # NoEl)]_vars

\* a coordinator action of the canvas d
PlayerStep(d) == PlayerTimerFires(d) \/ PlayerResumes(d)

TopWithoutCanvas(list, i, now) ==
  /\ list[i].canvasId = ""
  /\ i \in ActiveAt(list, now)
  /\ \A j \in ActiveAt(list, now) : list[j].priority <= list[i].priority

\* C27: when the top-priority active item of the manifest applied last names
\* no canvas, some canvas of the manager has it among the items of its
\* engine (it is selectable there).
C27_NoCanvasIdGoesToDefault ==
  \A i \in 1..Len(normalize(manifest)) :
    TopWithoutCanvas(normalize(manifest), i, clock) =>
      \E c \in MgrCanvasIds :
        /\ players[c].p.managed
        /\ \E k \in 1..Len(players[c].p.engine.items) :
             players[c].p.engine.items[k] = normalize(manifest)[i]

\* the element has the flat or the nested shape
MatchesShape(e) == looksFlat(e) \/ looksNested(e)

\* the payload and priority of the items of a sequence of elements
Carried(elems) ==
  [i \in 1..Len(elems) |-> [layout |-> elems[i].d.media, priority |-> elems[i].d.priority]]

Reshape(ds, w, nested) ==
  [wrap |-> w,
   elems |-> [i \in 1..Len(ds) |-> IF nested THEN Nested(ds[i]) ELSE Flat(ds[i])]]

\* the shapes that can carry n items
ShapesFor(n) ==
  {"array", "results", "data", "items"} \cup (IF n = 1 THEN {"single"} ELSE {})

\* C30: when every element of the evaluated manifest has an accepted shape,
\* the items it yields are also what every other accepted carrying of the
\* same items yields: a bare array of flat items or of wrappers, that array
\* under results, data or items, and for one item the single flat item or
\* the single wrapper.
C30_ShapeIndependent ==
  (/\ Evaluated
   /\ \A i \in 1..Len(manifest.elems) : MatchesShape(manifest.elems[i]))
  => \A w \in ShapesFor(Len(Items)), nested \in BOOLEAN :
       normalize(Reshape(Items, w, nested)) = Items

\* C32: after an evaluation the next check of every candidate, and the
\* nextCheck returned, are strictly later than the instant of the evaluation,
\* also for an item whose expireAt has passed.
C32_NextChangeInFuture ==
  Evaluated =>
    /\ \A i \in 1..Len(candidates) : candidates[i].nextCheckMs > nowJS
    /\ pick.nextCheck > nowJS

\* C33: once the manager has unmounted and deleted the player, its timer is
\* not armed, its container is not mounted again and it holds no renderer.
C33_UnmountedPlayerIsDead ==
  ~cp.managed =>
    /\ ~cp.loopTimer.armed
    /\ ~cp.mounted
    /\ \A e \in ElIds : cp.els[e] = NoElement

\* the identity tick compares with lastGood.id, for a document
DocIdentity(doc) == IF doc.id # "" THEN doc.id ELSE doc.name

\* C34: whenever lastGood is set, the renderer of the active layer exists, is
\* attached to the visible layer and holds a document of that kind and
\* identity; lastGood is unset whenever the canvas is black.
C34_LastGoodIsWhatIsShown ==
  /\ cp.lastGood # NoLastGood =>
       /\ cp.activePlayer # NoEl
       /\ cp.els[cp.activePlayer].parent = cp.activeStage
       /\ cp.visible[cp.activeStage]
       /\ cp.els[cp.activePlayer].kind = cp.lastGood.kind
       /\ DocIdentity(cp.els[cp.activePlayer].doc) = cp.lastGood.id
  /\ cp.isBlack => cp.lastGood = NoLastGood

\* the layer roles of a mounted canvas: the active layer is the visible one,
\* the back layer the hidden one
LayersConsistent(p) ==
  /\ p.activeStage # p.backStage
  /\ p.visible[p.activeStage]
  /\ ~p.visible[p.backStage]
  /\ Cardinality({s \in Stages : p.visible[s]}) = 1

\* the elements that were given a document in the step from p to q
Assigned(p, q) ==
  {e \in ElIds : /\ q.els[e] # NoElement
                 /\ \/ p.els[e] = NoElement
                    \/ p.els[e].doc # q.els[e].doc
                    \/ p.els[e].docVer # q.els[e].docVer}

\* the step from p to q exchanged the layer roles
RolesSwapped(p, q) ==
  /\ q.activeStage = p.backStage /\ q.backStage = p.activeStage
  /\ q.activePlayer = p.backPlayer /\ q.backPlayer = p.activePlayer
  /\ q.activeKind = p.backKind /\ q.backKind = p.activeKind

C35_Step ==
  /\ \A e \in Assigned(cp, cp') :
       /\ cp'.els[e].parent = cp'.backStage
       /\ ~cp'.visible[cp'.els[e].parent]
       /\ cp'.activePlayer # e
  /\ (cp.mounted /\ cp'.mounted /\ cp'.activeStage # cp.activeStage) =>
       RolesSwapped(cp, cp')

\* C35: in every state of a mounted canvas, between the awaits of prepare and
\* swap too, exactly one layer is visible, activeStage is the visible layer
\* and backStage the hidden one; a document is only assigned to the renderer
\* of the hidden layer; a swap exchanges stage, player and kind in one step
C35_OneVisibleLayer ==
  /\ [](cp.mounted => LayersConsistent(cp))
  /\ [][C35_Step]_vars

\* a tick is suspended inside swapLayers with the roles exchanged: layer B is
\* visible and shows the renderer that was prepared on it while hidden
C35_Witness ==
  /\ cp.mounted /\ cp.managed
  /\ \E s \in Slots : ticks[s].pc = "swap"
  /\ cp.activeStage = "B" /\ cp.visible["B"] /\ ~cp.visible["A"]
  /\ cp.activePlayer # NoEl
  /\ cp.els[cp.activePlayer].parent = "B"

\* the players CanvasManager.players holds, and the keys of lastCfg
LivePlayers == {c \in MgrCanvasIds : players[c].p.managed}
LastCfgKeys == {c \in MgrCanvasIds : players[c].lastCfg # NoCfg}

\* the configuration the last item of the list that names canvas c declares
LastDeclared(list, c) ==
  LET last == CHOOSE i \in 1..Len(list) :
                /\ list[i].canvasId = c
                /\ \A j \in (i + 1)..Len(list) : list[j].canvasId # c
  IN CanvasCfg(c, list[last].canvasX, list[last].canvasRes)

C36_AfterApply ==
  /\ LivePlayers = {c \in MgrCanvasIds :
                      \E i \in 1..Len(normalize(manifest)) :
                        normalize(manifest)[i].canvasId = c}
  /\ LastCfgKeys = LivePlayers
  /\ \A c \in LivePlayers :
       /\ players[c].p.cfg = LastDeclared(normalize(manifest), c)
       /\ players[c].lastCfg = LastDeclared(normalize(manifest), c)
       /\ players[c].p.mounted
       /\ players[c].p.box = BoxOf(LastDeclared(normalize(manifest), c))

C36_Removed ==
  \A c \in MgrCanvasIds :
    (players[c].p.managed /\ ~players'[c].p.managed) =>
      /\ ~players'[c].p.mounted
      /\ players'[c].p.box = NoBox
      /\ players'[c].p.activePlayer = NoEl /\ players'[c].p.backPlayer = NoEl

\* C36: after every CanvasManager.applyManifest the live players are the
\* canvas ids the normalized items declare, lastCfg has the same keys, a
\* removed player has been unmounted, and the geometry of every remaining
\* player is the last configuration declared for its id
C36_PlayersFollowManifest ==
  /\ []C36_AfterApply
  /\ [][C36_Removed]_vars

\* canvas c1 is declared twice with different rectangles and has taken the
\* second one; the player of canvas c2 was created earlier and is removed
C36_Witness ==
  /\ manifest = ArrayOf(<<ItemA, At(ItemB, 100, "800x600")>>)
  /\ players["c1"].p.managed
  /\ players["c1"].p.box = [left |-> 100, width |-> 800, height |-> 600]
  /\ ~players["c2"].p.managed
  /\ players["c2"].p.manifestVersion > 0

\* the step gave the canvas another rectangle
GeometryChanged == cp'.cfg # cp.cfg

\* the preparations in flight are the same and none of them was made stale
PreparationsKept ==
  /\ ticks' = ticks
  /\ \A s \in Slots :
       (ticks[s].pc # "idle" /\ ticks[s].versionAtStart = cp.manifestVersion) =>
         ticks[s].versionAtStart = cp'.manifestVersion

\* the renderers, the layers, lastGood and the blackout state are the same
PlaybackKept ==
  /\ cp'.els = cp.els
  /\ cp'.activeStage = cp.activeStage /\ cp'.visible = cp.visible
  /\ cp'.activePlayer = cp.activePlayer /\ cp'.backPlayer = cp.backPlayer
  /\ cp'.lastGood = cp.lastGood
  /\ cp'.isBlack = cp.isBlack

\* C31: a manifest that changes only the rectangle of a canvas moves the
\* container and starts no preparation, aborts none that is in flight, and
\* causes no swap and no blackout on that canvas
C31_GeometryKeepsPlayback ==
  [][GeometryChanged => (PreparationsKept /\ PlaybackKept)]_vars

\* the activations of flushOnce between inflight = true and the finally, and
\* those awaiting the response to their POST
Flushing == {s \in FlushSlots : an.flushes[s].pc # "idle"}
Posting == {s \in FlushSlots : an.flushes[s].pc = "post"}

IdSeq(q) == [i \in 1..Len(q) |-> q[i].id]

\* activation s received an ok response in this step
OkResponse(s) ==
  /\ an.flushes[s].pc = "post"
  /\ an'.flushes[s].pc = "idle"

\* the rows that leave the queue in this step
Leaving == Ids(an.queue) \ Ids(an'.queue)

C38_Step ==
  /\ \A s \in FlushSlots :
       OkResponse(s) =>
         /\ IdSeq(an.queue) = IdSeq(an.flushes[s].batch) \o IdSeq(an'.queue)
         /\ Leaving = Ids(an.flushes[s].batch)
  /\ \A i \in 1..Len(an.queue) :
       an.queue[i].id \in Leaving =>
         \/ an.queue[i].id \in an'.acked
         \/ an.queue[i].tries + 1 > maxRetry

\* C38: an ok response removes exactly the rows of its batch from the head
\* of the queue, the rows enqueued meanwhile stay queued in the order they
\* were enqueued, and a row leaves the queue only when a POST containing it
\* succeeded or its retry budget is exceeded
C38_OnlySentRowsLeave ==
  /\ [][C38_Step]_vars
  /\ [](\A i, j \in 1..Len(an.queue) : i < j => an.queue[i].id < an.queue[j].id)

\* row 1 was posted alone and acknowledged; row 2, enqueued behind it and
\* never posted, is now the head of the queue
C38_Witness ==
  /\ an.acked = {1}
  /\ IdSeq(an.queue) = <<2>>
  /\ an.attempts[2] = 0
  /\ an.attempts[1] = 1
  /\ ~an.inflight

\* activation s learned in this step that its POST failed
FailedResponse(s) ==
  /\ an.flushes[s].pc = "post"
  /\ an'.flushes[s].pc = "sleep"

\* the tries of row r in queue q; -1 if the row is not queued
TriesOf(q, r) ==
  IF r \in Ids(q) THEN (CHOOSE e \in {q[i] : i \in 1..Len(q)} : e.id = r).tries
  ELSE -1

\* a failed flush raises the tries of the rows of its batch by one, drops
\* none but rows of its batch, and leaves the tries of every other row
FailureCountsBatchOnly(s) ==
  \A r \in Ids(an.queue) :
    IF r \in Ids(an.flushes[s].batch)
    THEN r \in Ids(an'.queue) => TriesOf(an'.queue, r) = TriesOf(an.queue, r) + 1
    ELSE TriesOf(an'.queue, r) = TriesOf(an.queue, r)

\* C39: a row is posted at most maxRetry + 1 times and is dropped after the
\* last failure, and a failed flush increments the tries of exactly the rows
\* of the failed batch
C39_RetryBoundedPerRow ==
  /\ [](\A r \in 1..MaxRows : an.attempts[r] <= maxRetry + 1)
  /\ [](\A r \in Ids(an.queue) : TriesOf(an.queue, r) <= maxRetry)
  /\ [][\A s \in FlushSlots : FailedResponse(s) => FailureCountsBatchOnly(s)]_vars

\* the read of slot s settled in this step
Settled(s) == watch.reads[s].pc # "idle" /\ watch'.reads[s].pc = "idle"

\* the step sent a manifest to the renderer
Broadcast == Len(watch'.sent) > Len(watch.sent)

\* a manifest is sent only by a watcher read that returned an object whose
\* hash differs from the cached one, and the object becomes the cache
SentOnlyWhenHashDiffers ==
  Broadcast =>
    /\ \E s \in ReadSlots : Settled(s) /\ watch.reads[s].pc = "watch"
    /\ watch'.lastRead.json # "null"
    /\ computeHash(watch'.lastRead.json) # watch.lastManifestHash
    /\ watch'.sent = Append(watch.sent, watch'.lastRead.json)
    /\ watch'.lastManifestObject = watch'.lastRead.json
    /\ watch'.lastManifestHash = computeHash(watch'.lastRead.json)

\* a read that returned null sends nothing and leaves the cache
NullReadChangesNothing ==
  \A s \in ReadSlots :
    (Settled(s) /\ watch'.lastRead.json = "null") =>
      /\ ~Broadcast
      /\ watch'.lastManifestHash = watch.lastManifestHash
      /\ watch'.lastManifestObject = watch.lastManifestObject

\* after a watcher read returned an object the cache has its hash, so the
\* next event with the same content sends nothing
SameContentSentOnce ==
  \A s \in ReadSlots :
    (Settled(s) /\ watch.reads[s].pc = "watch" /\ watch'.lastRead.json # "null") =>
      /\ watch'.lastManifestHash = computeHash(watch'.lastRead.json)
      /\ (computeHash(watch'.lastRead.json) = watch.lastManifestHash => ~Broadcast)

\* the first watcher read that returns an object after an unlink sends it
RecreatedIsSent ==
  \A s \in ReadSlots :
    (/\ watch.cleared
     /\ Settled(s) /\ watch.reads[s].pc = "watch"
     /\ watch'.lastRead.json # "null") => Broadcast

\* C40: the watcher sends a manifest only when its content hash differs from
\* the cached one, identical content is sent once, a null read sends nothing
\* and leaves the cache, and after an unlink the re-created file is sent again
C40_CoalescedByContent ==
  [][/\ SentOnlyWhenHashDiffers
     /\ NullReadChangesNothing
     /\ SameContentSentOnce
     /\ RecreatedIsSent]_vars

\* the first watcher read that returns an object after an unlink sends it,
\* if the cache is still empty when it returns
RecreatedIsSentUnlessPrimed ==
  \A s \in ReadSlots :
    (/\ watch.cleared /\ watch.lastManifestHash = ""
     /\ Settled(s) /\ watch.reads[s].pc = "watch"
     /\ watch'.lastRead.json # "null") => Broadcast

\* C40, amended: as C40, but after an unlink the re-created file is sent
\* again unless the priming read or a zcast:read-manifest request has filled
\* the cache in between
C40_CoalescedUnlessPrimed ==
  [][/\ SentOnlyWhenHashDiffers
     /\ NullReadChangesNothing
     /\ SameContentSentOnce
     /\ RecreatedIsSentUnlessPrimed]_vars

\* the same object was sent, the file was unlinked and re-created, and the
\* object was sent again
C40_Witness ==
  /\ watch.sent = <<"X", "X">>
  /\ watch.lastManifestHash = "hX"
  /\ ~watch.cleared

====
